---- MODULE Spec2Model ----
(***************************************************************************)
(* SkyMesh-AI drone operations coordinator: the entity model, the scoring  *)
(* utility, the matching / conflict / reassignment engines and the         *)
(* coordinator agent's handlers over one shared DataStore.                 *)
(*                                                                         *)
(* Identifiers are strings, "" is the empty assignment.  Dates are day     *)
(* numbers, NoDate is Python's None.  Scores are the floats of the source  *)
(* held exactly as integers in units of 1/(100*Unit).                      *)
(***************************************************************************)
EXTENDS Integers, Sequences, FiniteSets, TLC

VARIABLES
    pilots,     \* DataStore.pilots   : sequence of Pilot records
    drones,     \* DataStore.drones   : sequence of Drone records
    missions,   \* DataStore.missions : sequence of Mission records
    saved,      \* the data source (CSV / sheet): what save_all wrote last
    plans,      \* DataStore._last_reassignment_plans
    ret,        \* what the last operation did and returned
    sent,       \* how many messages the store has processed
    session,    \* position of the session that runs a mutator statement by statement
    obs         \* what the reading session saw last

vars == <<pilots, drones, missions, saved, plans, ret, sent, session, obs>>

-----------------------------------------------------------------------------
(* Bounds of the model *)

NumPilots == 2
NumDrones == 1
NumMissions == 2
MaxDate == 3
MaxMessages == 4

(* Identifier tables: pilot_id, drone_id, project_id of the i-th row. *)
PilotIdOf == <<"P1", "P2", "P3", "P4">>
DroneIdOf == <<"D1", "D2", "D3", "D4">>
MissionIdOf == <<"PRJ1", "PRJ2", "PRJ3", "PRJ4">>

Min(a, b) == IF a <= b THEN a ELSE b
Max(a, b) == IF a >= b THEN a ELSE b

PilotIds == {PilotIdOf[i] : i \in 1..Min(NumPilots, 4)}
DroneIds == {DroneIdOf[i] : i \in 1..Min(NumDrones, 4)}
MissionIds == {MissionIdOf[i] : i \in 1..Min(NumMissions, 4)}

NoDate == 0
Dates == 1..MaxDate

-----------------------------------------------------------------------------
(* Sequence helpers *)

\* [x for x in s if Test(x)], order kept
Filter(s, Test(_)) == SelectSeq(s, Test)

\* s[:n]
Take(s, n) == SubSeq(s, 1, Min(n, Len(s)))

\* next((x for x in s if Test(x)), None) as an index, 0 for None
FirstIndex(s, Test(_)) ==
    IF \E i \in DOMAIN s : Test(s[i])
    THEN CHOOSE i \in DOMAIN s : Test(s[i]) /\ \A j \in 1..(i - 1) : ~Test(s[j])
    ELSE 0

-----------------------------------------------------------------------------
(* utils/scoring.py *)

\* 1.0 of a score component
Unit == 2

\* s.lower().strip(): rows are stripped when loaded, so only the case differs
LowerStrip(s) ==
    CASE s = "Mapping" -> "mapping"
      [] s = "Thermal" -> "thermal"
      [] s = "DGCA" -> "dgca"
      [] s = "Delhi" -> "delhi"
      [] s = "Pune" -> "pune"
      [] OTHER -> s

set_overlap_ratio(required, available) ==
    IF required = {} THEN Unit
    ELSE LET req_lower == {LowerStrip(r) : r \in required}
             avail_lower == {LowerStrip(a) : a \in available}
             matched == req_lower \cap avail_lower
         IN (Unit * Cardinality(matched)) \div Cardinality(req_lower)

location_match_score(location_a, location_b) ==
    IF location_a = "" \/ location_b = "" THEN 0
    ELSE IF LowerStrip(location_a) = LowerStrip(location_b) THEN Unit ELSE 0

\* A score is a binary float. It is kept as Fine * e + skew: e is the exact sum
\* in units of 1 / (100 * Unit), skew says whether the float sum of the products
\* lies below (-1), on (0) or above (1) the float nearest to e, so that scores
\* compare as the floats do.
Fine == 3

Exact(score) == (score + 1) \div Fine

\* the sums skill * 0.40 + cert * 0.30 + location * 0.15 + availability * 0.15
\* that do not land on the nearest float, by their four ratios in units of 1 / Unit
FloatSkew(skill_score, cert_score, location_score, availability_score) ==
    LET ratios == <<skill_score, cert_score, location_score, availability_score>>
    IN IF ratios \in {<<0, 0, 2, 1>>, <<0, 1, 0, 1>>, <<0, 1, 2, 2>>, <<0, 2, 0, 2>>,
                      <<0, 2, 2, 0>>, <<0, 2, 2, 1>>, <<2, 2, 0, 1>>, <<2, 2, 2, 1>>}
       THEN -1
       ELSE IF ratios \in {<<2, 0, 0, 1>>, <<2, 0, 2, 2>>, <<2, 1, 0, 2>>,
                           <<2, 1, 2, 0>>, <<2, 1, 2, 2>>}
       THEN 1
       ELSE 0

\* default weights, in hundredths
weighted_score(skill_score, cert_score, location_score, availability_score) ==
    Fine * (skill_score * 40 + cert_score * 30 + location_score * 15
            + availability_score * 15)
    + FloatSkew(skill_score, cert_score, location_score, availability_score)

-----------------------------------------------------------------------------
(* engines/matching_engine.py *)

score_pilot_for_mission(pilot, mission) ==
    LET skill_s == set_overlap_ratio(mission.required_skills, pilot.skills)
        cert_s == set_overlap_ratio(mission.required_certs, pilot.certifications)
        loc_s == location_match_score(pilot.location, mission.location)
        avail_s == IF pilot.available_from # NoDate /\ mission.start_date # NoDate
                   THEN (IF pilot.available_from <= mission.start_date THEN Unit ELSE 0)
                   ELSE Unit \div 2
    IN weighted_score(skill_s, cert_s, loc_s, avail_s)

score_drone_for_mission(drone, mission) ==
    LET cap_s == set_overlap_ratio(mission.required_skills, drone.capabilities)
        loc_s == location_match_score(drone.location, mission.location)
        maint_s == IF drone.maintenance_due # NoDate /\ mission.end_date # NoDate
                   THEN (IF drone.maintenance_due > mission.end_date THEN Unit ELSE 0)
                   ELSE Unit \div 2
    \* these float sums land on the nearest float
    IN Fine * (cap_s * 50 + loc_s * 30 + maint_s * 20)

\* an insertion that puts x in front of the elements whose score equals its own
RECURSIVE InsertDesc_Unstable(_, _)
InsertDesc_Unstable(x, s) ==
    IF s = <<>> THEN <<x>>
    ELSE IF Head(s).score > x.score THEN <<Head(s)>> \o InsertDesc_Unstable(x, Tail(s))
    ELSE <<x>> \o s

\* list.sort(key=lambda x: x[1], reverse=True): stable, descending by score.
\* InsertDesc puts x behind every element whose score is >= its own.
RECURSIVE InsertDesc(_, _)
InsertDesc(x, s) ==
    IF s = <<>> THEN <<x>>
    ELSE IF Head(s).score >= x.score THEN <<Head(s)>> \o InsertDesc(x, Tail(s))
    ELSE <<x>> \o s

RECURSIVE SortDescFrom(_, _)
SortDescFrom(s, acc) ==
    IF s = <<>> THEN acc ELSE SortDescFrom(Tail(s), InsertDesc(Head(s), acc))

SortDesc(s) == SortDescFrom(s, <<>>)

IsAvailable(e) == e.status = "Available"

find_best_pilots(ps, mission, top_n) ==
    LET avail == Filter(ps, IsAvailable)
        candidates == [i \in DOMAIN avail |->
                          [id |-> avail[i].pilot_id,
                           score |-> score_pilot_for_mission(avail[i], mission)]]
    IN Take(SortDesc(candidates), top_n)

\* the Available drones in the order of the list, not ranked
find_best_drones_Unranked(ds, mission, top_n) ==
    LET avail == Filter(ds, IsAvailable)
    IN Take([i \in DOMAIN avail |->
                [id |-> avail[i].drone_id,
                 score |-> score_drone_for_mission(avail[i], mission)]], top_n)

find_best_drones(ds, mission, top_n) ==
    LET avail == Filter(ds, IsAvailable)
        candidates == [i \in DOMAIN avail |->
                          [id |-> avail[i].drone_id,
                           score |-> score_drone_for_mission(avail[i], mission)]]
    IN Take(SortDesc(candidates), top_n)

-----------------------------------------------------------------------------
(* models/mission.py *)

PRIORITY_RANK(priority) ==
    CASE priority = "Urgent" -> 1
      [] priority = "High" -> 2
      [] priority = "Standard" -> 3
      [] priority = "Low" -> 4
      [] OTHER -> 3

\* ranges that only touch do not count
overlaps_with_Strict(self, other) ==
    IF self.start_date = NoDate \/ self.end_date = NoDate
       \/ other.start_date = NoDate \/ other.end_date = NoDate
    THEN FALSE
    ELSE self.start_date < other.end_date /\ other.start_date < self.end_date

overlaps_with(self, other) ==
    IF self.start_date = NoDate \/ self.end_date = NoDate
       \/ other.start_date = NoDate \/ other.end_date = NoDate
    THEN FALSE
    ELSE self.start_date <= other.end_date /\ other.start_date <= self.end_date

-----------------------------------------------------------------------------
(* engines/conflict_engine.py *)

Conflict(conflict_type, severity, entity_id, mission_id, description) ==
    [conflict_type |-> conflict_type, severity |-> severity, entity_id |-> entity_id,
     mission_id |-> mission_id, description |-> description]

\* the keys of a dict filled with setdefault, in insertion order
RECURSIVE Dedupe(_, _)
Dedupe(s, seen) ==
    IF s = <<>> THEN <<>>
    ELSE IF Head(s) \in seen THEN Dedupe(Tail(s), seen)
    ELSE <<Head(s)>> \o Dedupe(Tail(s), seen \cup {Head(s)})

\* only the pairs of neighbours <<i, i + 1>>
RECURSIVE PairsFrom_Adjacent(_, _, _)
PairsFrom_Adjacent(i, j, n) ==
    IF i >= n THEN <<>> ELSE <<<<i, i + 1>>>> \o PairsFrom_Adjacent(i + 1, i + 2, n)

\* for i in range(n): for j in range(i + 1, n), as the pairs <<i, j>> in loop order
RECURSIVE PairsFrom(_, _, _)
PairsFrom(i, j, n) ==
    IF i >= n THEN <<>>
    ELSE IF j > n THEN PairsFrom(i + 1, i + 2, n)
    ELSE <<<<i, j>>>> \o PairsFrom(i, j + 1, n)

\* the conflicts of one entity's mission list
BookingConflicts(eid, m_list, description) ==
    LET pairs == PairsFrom(1, 2, Len(m_list))
        Overlapping(pr) == overlaps_with(m_list[pr[1]], m_list[pr[2]])
        hits == Filter(pairs, Overlapping)
    IN [k \in DOMAIN hits |->
           Conflict("Double Booking", "Critical", eid,
                    <<m_list[hits[k][1]].project_id, m_list[hits[k][2]].project_id>>,
                    description)]

detect_double_bookings(ps, ms) ==
    LET pilot_ids == {ps[i].pilot_id : i \in DOMAIN ps}
        Grouped(m) == m.assigned_pilot # "" /\ m.assigned_pilot \in pilot_ids
        grouped == Filter(ms, Grouped)
        keys == Dedupe([i \in DOMAIN grouped |-> grouped[i].assigned_pilot], {})
        RECURSIVE Scan(_)
        Scan(ks) ==
            IF ks = <<>> THEN <<>>
            ELSE LET pid == Head(ks)
                     Mine(m) == m.assigned_pilot = pid
                 IN BookingConflicts(pid, Filter(grouped, Mine), "pilot overlap")
                    \o Scan(Tail(ks))
    IN Scan(keys)

detect_drone_double_bookings(ds, ms) ==
    LET drone_ids == {ds[i].drone_id : i \in DOMAIN ds}
        Grouped(m) == m.assigned_drone # "" /\ m.assigned_drone \in drone_ids
        grouped == Filter(ms, Grouped)
        keys == Dedupe([i \in DOMAIN grouped |-> grouped[i].assigned_drone], {})
        RECURSIVE Scan(_)
        Scan(ks) ==
            IF ks = <<>> THEN <<>>
            ELSE LET did == Head(ks)
                     Mine(m) == m.assigned_drone = did
                 IN BookingConflicts(did, Filter(grouped, Mine), "drone overlap")
                    \o Scan(Tail(ks))
    IN Scan(keys)

\* pilot_map[pid] / drone_map[did]: a dict comprehension keeps the last row of an id
LastIndex(s, Test(_)) == CHOOSE i \in DOMAIN s : Test(s[i]) /\ \A j \in (i + 1)..Len(s) : ~Test(s[j])

PilotOf(ps, pid) == LET Is(p) == p.pilot_id = pid IN ps[LastIndex(ps, Is)]
DroneOf(ds, did) == LET Is(d) == d.drone_id = did IN ds[LastIndex(ds, Is)]

detect_skill_mismatches(ps, ms) ==
    LET pilot_ids == {ps[i].pilot_id : i \in DOMAIN ps}
        RECURSIVE Scan(_)
        Scan(rest) ==
            IF rest = <<>> THEN <<>>
            ELSE LET m == Head(rest) IN
                 IF m.assigned_pilot = "" \/ m.assigned_pilot \notin pilot_ids
                 THEN Scan(Tail(rest))
                 ELSE LET p == PilotOf(ps, m.assigned_pilot)
                          p_skills == {LowerStrip(x) : x \in p.skills}
                          p_certs == {LowerStrip(x) : x \in p.certifications}
                          missing_skills == {x \in m.required_skills : LowerStrip(x) \notin p_skills}
                          missing_certs == {x \in m.required_certs : LowerStrip(x) \notin p_certs}
                      IN (IF missing_skills # {}
                          THEN <<Conflict("Skill Mismatch", "Critical", p.pilot_id,
                                          <<m.project_id>>, <<"skills", missing_skills>>)>>
                          ELSE <<>>)
                         \o (IF missing_certs # {}
                             THEN <<Conflict("Skill Mismatch", "Critical", p.pilot_id,
                                             <<m.project_id>>, <<"certifications", missing_certs>>)>>
                             ELSE <<>>)
                         \o Scan(Tail(rest))
    IN Scan(ms)

\* a scan without the `continue`: a drone in Maintenance is tested for its due
\* date as well
detect_maintenance_conflicts_BothRules(ds, ms) ==
    LET drone_ids == {ds[i].drone_id : i \in DOMAIN ds}
        RECURSIVE Scan(_)
        Scan(rest) ==
            IF rest = <<>> THEN <<>>
            ELSE LET m == Head(rest) IN
                 IF m.assigned_drone = "" \/ m.assigned_drone \notin drone_ids
                 THEN Scan(Tail(rest))
                 ELSE LET d == DroneOf(ds, m.assigned_drone) IN
                      (IF d.status = "Maintenance"
                       THEN <<Conflict("Maintenance", "Critical", d.drone_id,
                                       <<m.project_id>>, "in maintenance")>>
                       ELSE <<>>)
                      \o (IF d.maintenance_due # NoDate /\ m.end_date # NoDate
                             /\ d.maintenance_due <= m.end_date
                          THEN <<Conflict("Maintenance", "Warning", d.drone_id,
                                          <<m.project_id>>, "maintenance due")>>
                          ELSE <<>>)
                      \o Scan(Tail(rest))
    IN Scan(ms)

detect_maintenance_conflicts(ds, ms) ==
    LET drone_ids == {ds[i].drone_id : i \in DOMAIN ds}
        RECURSIVE Scan(_)
        Scan(rest) ==
            IF rest = <<>> THEN <<>>
            ELSE LET m == Head(rest) IN
                 IF m.assigned_drone = "" \/ m.assigned_drone \notin drone_ids
                 THEN Scan(Tail(rest))
                 ELSE LET d == DroneOf(ds, m.assigned_drone) IN
                      IF d.status = "Maintenance"
                      THEN <<Conflict("Maintenance", "Critical", d.drone_id,
                                      <<m.project_id>>, "in maintenance")>>
                           \o Scan(Tail(rest))
                      ELSE IF d.maintenance_due # NoDate /\ m.end_date # NoDate
                              /\ d.maintenance_due <= m.end_date
                      THEN <<Conflict("Maintenance", "Warning", d.drone_id,
                                      <<m.project_id>>, "maintenance due")>>
                           \o Scan(Tail(rest))
                      ELSE Scan(Tail(rest))
    IN Scan(ms)

detect_location_mismatches(ps, ds, ms) ==
    LET pilot_ids == {ps[i].pilot_id : i \in DOMAIN ps}
        drone_ids == {ds[i].drone_id : i \in DOMAIN ds}
        RECURSIVE Scan(_)
        Scan(rest) ==
            IF rest = <<>> THEN <<>>
            ELSE LET m == Head(rest) IN
                 IF m.location = "" THEN Scan(Tail(rest))
                 ELSE (IF m.assigned_pilot # "" /\ m.assigned_pilot \in pilot_ids
                          /\ PilotOf(ps, m.assigned_pilot).location # ""
                          /\ LowerStrip(PilotOf(ps, m.assigned_pilot).location)
                                # LowerStrip(m.location)
                       THEN <<Conflict("Location Mismatch", "Warning", m.assigned_pilot,
                                       <<m.project_id>>, "pilot location")>>
                       ELSE <<>>)
                      \o (IF m.assigned_drone # "" /\ m.assigned_drone \in drone_ids
                             /\ DroneOf(ds, m.assigned_drone).location # ""
                             /\ LowerStrip(DroneOf(ds, m.assigned_drone).location)
                                   # LowerStrip(m.location)
                          THEN <<Conflict("Location Mismatch", "Warning", m.assigned_drone,
                                          <<m.project_id>>, "drone location")>>
                          ELSE <<>>)
                      \o Scan(Tail(rest))
    IN Scan(ms)

\* the drone double-bookings in front of the pilot double-bookings
detect_all_conflicts_DronesFirst(ps, ds, ms) ==
    detect_drone_double_bookings(ds, ms)
    \o detect_double_bookings(ps, ms)
    \o detect_skill_mismatches(ps, ms)
    \o detect_maintenance_conflicts(ds, ms)
    \o detect_location_mismatches(ps, ds, ms)

detect_all_conflicts(ps, ds, ms) ==
    detect_double_bookings(ps, ms)
    \o detect_drone_double_bookings(ds, ms)
    \o detect_skill_mismatches(ps, ms)
    \o detect_maintenance_conflicts(ds, ms)
    \o detect_location_mismatches(ps, ds, ms)

-----------------------------------------------------------------------------
(* engines/reassignment_engine.py *)

\* None of an Optional[str] / Optional[Pilot] / Optional[Drone] field is ""
SwapPlan(urgent_mission_id, suggested_pilot, pilot_score, suggested_drone, drone_score, displaced_from_mission, displaced_mission_priority, risk_score, warnings) ==
    [urgent_mission_id |-> urgent_mission_id,
     suggested_pilot |-> suggested_pilot, pilot_score |-> pilot_score,
     suggested_drone |-> suggested_drone, drone_score |-> drone_score,
     displaced_from_mission |-> displaced_from_mission,
     displaced_mission_priority |-> displaced_mission_priority,
     risk_score |-> risk_score, warnings |-> warnings]

\* the score pairs whose float (1.0 - (pilot_score + drone_score) / 2) * 50 falls
\* just below the whole number it is in exact arithmetic
TruncatesLow ==
    {<<240, 480>>, <<330, 390>>, <<360, 600>>, <<390, 330>>, <<420, 540>>, <<421, 300>>,
     <<421, 540>>, <<480, 240>>, <<480, 480>>, <<480, 600>>, <<510, 450>>, <<511, 210>>,
     <<511, 330>>, <<511, 450>>, <<600, 360>>, <<600, 480>>}

\* the score pairs, one of them -1.0 or 2.0, whose float product falls just above
\* the negative whole number it is in exact arithmetic
TruncatesHigh == {<<240, 1200>>, <<480, 1200>>, <<1200, 240>>, <<1200, 480>>}

\* the same function without the clamp of its return statement
_compute_risk_score_Unclamped(pilot_score, drone_score, is_swap, displaced_priority) ==
    LET eighths == 200 * Unit - Exact(pilot_score) - Exact(drone_score)
        whole == IF eighths >= 0 THEN eighths \div (4 * Unit)
                 ELSE -((-eighths) \div (4 * Unit))
        base_risk == IF <<pilot_score, drone_score>> \in TruncatesLow THEN whole - 1
                     ELSE IF <<pilot_score, drone_score>> \in TruncatesHigh THEN whole + 1
                     ELSE whole
    IN IF ~is_swap THEN base_risk
       ELSE base_risk + 20
            + (CASE displaced_priority = "High" -> 20
                 [] displaced_priority = "Urgent" -> 30
                 [] displaced_priority \in {"Standard", "Low"} -> 5
                 [] OTHER -> 0)

\* int((1.0 - (pilot_score + drone_score) / 2) * 50): int() drops the fraction of
\* the float product, towards zero
_compute_risk_score(pilot_score, drone_score, is_swap, displaced_priority) ==
    LET eighths == 200 * Unit - Exact(pilot_score) - Exact(drone_score)
        whole == IF eighths >= 0 THEN eighths \div (4 * Unit)
                 ELSE -((-eighths) \div (4 * Unit))
        base_risk == IF <<pilot_score, drone_score>> \in TruncatesLow THEN whole - 1
                     ELSE IF <<pilot_score, drone_score>> \in TruncatesHigh THEN whole + 1
                     ELSE whole
        swapped == IF ~is_swap THEN base_risk
                   ELSE base_risk + 20
                        + (CASE displaced_priority = "High" -> 20
                             [] displaced_priority = "Urgent" -> 30
                             [] displaced_priority \in {"Standard", "Low"} -> 5
                             [] OTHER -> 0)
    IN Max(0, Min(100, swapped))

\* an insertion for a sort that is not reversed: the Standard missions first
RECURSIVE InsertByRank_Ascending(_, _)
InsertByRank_Ascending(m, s) ==
    IF s = <<>> THEN <<m>>
    ELSE IF PRIORITY_RANK(Head(s).priority) <= PRIORITY_RANK(m.priority)
         THEN <<Head(s)>> \o InsertByRank_Ascending(m, Tail(s))
    ELSE <<m>> \o s

\* sorted(..., key=lambda m: m.priority_rank, reverse=True): stable
RECURSIVE InsertByRank(_, _)
InsertByRank(m, s) ==
    IF s = <<>> THEN <<m>>
    ELSE IF PRIORITY_RANK(Head(s).priority) >= PRIORITY_RANK(m.priority)
         THEN <<Head(s)>> \o InsertByRank(m, Tail(s))
    ELSE <<m>> \o s

RECURSIVE SortByRankDesc(_, _)
SortByRankDesc(s, acc) ==
    IF s = <<>> THEN acc ELSE SortByRankDesc(Tail(s), InsertByRank(Head(s), acc))

\* an insertion that puts x in front of the plans whose risk equals its own
RECURSIVE InsertByRisk_Unstable(_, _)
InsertByRisk_Unstable(x, s) ==
    IF s = <<>> THEN <<x>>
    ELSE IF Head(s).risk_score < x.risk_score
         THEN <<Head(s)>> \o InsertByRisk_Unstable(x, Tail(s))
    ELSE <<x>> \o s

\* plans.sort(key=lambda p: p.risk_score): stable, ascending
RECURSIVE InsertByRisk(_, _)
InsertByRisk(x, s) ==
    IF s = <<>> THEN <<x>>
    ELSE IF Head(s).risk_score <= x.risk_score THEN <<Head(s)>> \o InsertByRisk(x, Tail(s))
    ELSE <<x>> \o s

RECURSIVE SortByRisk(_, _)
SortByRisk(s, acc) ==
    IF s = <<>> THEN acc ELSE SortByRisk(Tail(s), InsertByRisk(Head(s), acc))

NoDroneWarning == "No available drones found. Manual drone assignment needed."
UnstaffedWarning(mid) == <<"will be left without a pilot", mid>>

\* a floor that a score of exactly 0.3 does not reach
MinSwapScore_Above == Fine * 30 * Unit + 1

\* 0.3 of a pilot score
MinSwapScore == Fine * 30 * Unit

\* only the first of the missions a pilot can be taken from
Reassignable_FirstOnly(ms) ==
    LET Swappable(m) == m.assigned_pilot # "" /\ m.priority \in {"Low", "Standard"}
    IN Take(SortByRankDesc(Filter(ms, Swappable), <<>>), 1)

\* reassignable = sorted([m for m in missions if m.assigned_pilot and m.priority in
\* ("Low", "Standard")], key=lambda m: m.priority_rank, reverse=True)
Reassignable(ms) ==
    LET Swappable(m) == m.assigned_pilot # "" /\ m.priority \in {"Low", "Standard"}
    IN SortByRankDesc(Filter(ms, Swappable), <<>>)

\* a planner that also looks for swaps when it found no drone
Phase2Runs_WithoutPlans(best_pilots, best_drones) ==
    best_pilots = <<>> \/ best_drones = <<>>

\* a planner that looks for swaps whatever phase 1 found
Phase2Runs_Always(best_pilots, best_drones) == TRUE

\* if not best_pilots:
Phase2Runs(best_pilots, best_drones) == best_pilots = <<>>

\* an adjustment that only adds the warning
NoDroneAdjusted_WarningOnly(plan) ==
    [plan EXCEPT !.warnings = Append(@, NoDroneWarning)]

\* plan.warnings.append(...); plan.risk_score = min(100, plan.risk_score + 15)
NoDroneAdjusted(plan) ==
    [plan EXCEPT !.warnings = Append(@, NoDroneWarning),
                 !.risk_score = Min(100, @ + 15)]

suggest_reassignment(urgent_mission, ps, ds, ms) ==
    LET best_pilots == find_best_pilots(ps, urgent_mission, 3)
        best_drones == find_best_drones(ds, urgent_mission, 3)
        phase1 ==
            IF best_pilots # <<>> /\ best_drones # <<>>
            THEN LET top == Take(best_pilots, 2) IN
                 [i \in DOMAIN top |->
                     SwapPlan(urgent_mission.project_id, top[i].id, top[i].score,
                              best_drones[1].id, best_drones[1].score, "", "",
                              _compute_risk_score(top[i].score, best_drones[1].score, FALSE, ""),
                              <<>>)]
            ELSE <<>>
        pilot_ids == {ps[i].pilot_id : i \in DOMAIN ps}
        reassignable == Reassignable(ms)
        d_score == IF best_drones # <<>> THEN best_drones[1].score ELSE 0
        drone_obj == IF best_drones # <<>> THEN best_drones[1].id ELSE ""
        RECURSIVE Swaps(_)
        Swaps(rest) ==
            IF rest = <<>> THEN <<>>
            ELSE LET m == Head(rest) IN
                 IF m.assigned_pilot \notin pilot_ids THEN Swaps(Tail(rest))
                 ELSE LET candidate == PilotOf(ps, m.assigned_pilot)
                          p_score == score_pilot_for_mission(candidate, urgent_mission)
                      IN IF p_score < MinSwapScore THEN Swaps(Tail(rest))
                         ELSE <<SwapPlan(urgent_mission.project_id, candidate.pilot_id, p_score,
                                         drone_obj, d_score, m.project_id, m.priority,
                                         _compute_risk_score(p_score, d_score, TRUE, m.priority),
                                         <<UnstaffedWarning(m.project_id)>>)>>
                              \o Swaps(Tail(rest))
        phase2 == IF Phase2Runs(best_pilots, best_drones) THEN Swaps(reassignable) ELSE <<>>
        built == phase1 \o phase2
        adjusted ==
            IF best_drones = <<>>
            THEN [i \in DOMAIN built |-> NoDroneAdjusted(built[i])]
            ELSE built
    IN SortByRisk(adjusted, <<>>)

\* The outcome of execute_reassignment: the three lists as it leaves them, how it
\* ended ("ok", "not_found": the returned failure, "exception": StopIteration raised
\* by next() on a pilot or drone that is not in the list) and the changes it lists.
ExecOutcome(ps, ds, ms, outcome, changes) ==
    [pilots |-> ps, drones |-> ds, missions |-> ms, outcome |-> outcome, changes |-> changes]

\* a lookup that falls back on the first mission when the id is unknown
UrgentOf_Fallback(plan, ms) ==
    LET IsUrgent(m) == m.project_id = plan.urgent_mission_id
    IN IF FirstIndex(ms, IsUrgent) # 0 THEN FirstIndex(ms, IsUrgent)
       ELSE IF ms # <<>> THEN 1 ELSE 0

\* next((m for m in missions if m.project_id == plan.urgent_mission_id), None)
UrgentOf(plan, ms) ==
    LET IsUrgent(m) == m.project_id = plan.urgent_mission_id
    IN FirstIndex(ms, IsUrgent)

\* an execution that writes the urgent mission's side only
execute_reassignment_MissionOnly(plan, ps, ds, ms) ==
    LET IsPilot(p) == p.pilot_id = plan.suggested_pilot
        IsDrone(d) == d.drone_id = plan.suggested_drone
        u == UrgentOf(plan, ms)
        ms1 == IF plan.suggested_pilot # ""
               THEN [ms EXCEPT ![u].assigned_pilot = plan.suggested_pilot] ELSE ms
        ch1 == IF plan.suggested_pilot # ""
               THEN <<<<"Assigned pilot", plan.suggested_pilot, ms[u].project_id>>>> ELSE <<>>
        ms2 == IF plan.suggested_drone # ""
               THEN [ms1 EXCEPT ![u].assigned_drone = plan.suggested_drone] ELSE ms1
        ch2 == IF plan.suggested_drone # ""
               THEN Append(ch1, <<"Assigned drone", plan.suggested_drone, ms[u].project_id>>)
               ELSE ch1
    IN IF u = 0 THEN ExecOutcome(ps, ds, ms, "not_found", <<>>)
       ELSE IF \/ plan.suggested_pilot # "" /\ FirstIndex(ps, IsPilot) = 0
               \/ plan.suggested_drone # "" /\ FirstIndex(ds, IsDrone) = 0
            THEN ExecOutcome(ps, ds, ms, "exception", <<>>)
       ELSE ExecOutcome(ps, ds, ms2, "ok", ch2)

\* an execution that hands the displaced mission the pilot the urgent mission had
execute_reassignment_Exchange(plan, ps, ds, ms) ==
    LET IsOld(m) == m.project_id = plan.displaced_from_mission
        IsPilot(p) == p.pilot_id = plan.suggested_pilot
        IsDrone(d) == d.drone_id = plan.suggested_drone
        u == UrgentOf(plan, ms)
        old == IF plan.displaced_from_mission # "" THEN FirstIndex(ms, IsOld) ELSE 0
        pi == FirstIndex(ps, IsPilot)
        di == FirstIndex(ds, IsDrone)
        ms1 == IF plan.suggested_pilot # "" /\ old # 0
               THEN [ms EXCEPT ![old].assigned_pilot = ms[u].assigned_pilot] ELSE ms
        psP == IF plan.suggested_pilot # ""
               THEN [ps EXCEPT ![pi].status = "Assigned",
                               ![pi].current_assignment = plan.urgent_mission_id]
               ELSE ps
        msP == IF plan.suggested_pilot # ""
               THEN [ms1 EXCEPT ![u].assigned_pilot = plan.suggested_pilot] ELSE ms
        chP == IF plan.suggested_pilot # ""
               THEN <<<<"Assigned pilot", plan.suggested_pilot, ms[u].project_id>>>> ELSE <<>>
        dsD == IF plan.suggested_drone # ""
               THEN [ds EXCEPT ![di].status = "Assigned",
                               ![di].current_assignment = plan.urgent_mission_id]
               ELSE ds
        msD == IF plan.suggested_drone # ""
               THEN [msP EXCEPT ![u].assigned_drone = plan.suggested_drone] ELSE msP
        chD == IF plan.suggested_drone # ""
               THEN Append(chP, <<"Assigned drone", plan.suggested_drone, ms[u].project_id>>)
               ELSE chP
    IN IF u = 0 THEN ExecOutcome(ps, ds, ms, "not_found", <<>>)
       ELSE IF \/ plan.suggested_pilot # "" /\ pi = 0
               \/ plan.suggested_drone # "" /\ di = 0
            THEN ExecOutcome(ps, ds, ms, "exception", <<>>)
       ELSE ExecOutcome(psP, dsD, msD, "ok", chD)

execute_reassignment(plan, ps, ds, ms) ==
    LET IsOld(m) == m.project_id = plan.displaced_from_mission
        IsPilot(p) == p.pilot_id = plan.suggested_pilot
        IsDrone(d) == d.drone_id = plan.suggested_drone
        u == UrgentOf(plan, ms)
        old == IF plan.displaced_from_mission # "" THEN FirstIndex(ms, IsOld) ELSE 0
        pi == FirstIndex(ps, IsPilot)
        di == FirstIndex(ds, IsDrone)
        \* lines 207-214: the displaced mission loses its pilot
        ms1 == IF plan.suggested_pilot # "" /\ old # 0
               THEN [ms EXCEPT ![old].assigned_pilot = ""] ELSE ms
        ch1 == IF plan.suggested_pilot # "" /\ old # 0
               THEN <<<<"Removed", plan.suggested_pilot, ms[old].project_id>>>> ELSE <<>>
        \* lines 216-221: the pilot and the urgent mission
        ps2 == [ps EXCEPT ![pi].status = "Assigned",
                          ![pi].current_assignment = plan.urgent_mission_id]
        ms2 == [ms1 EXCEPT ![u].assigned_pilot = plan.suggested_pilot]
        ch2 == Append(ch1, <<"Assigned pilot", plan.suggested_pilot, ms[u].project_id>>)
        \* the state in front of line 223
        psP == IF plan.suggested_pilot # "" THEN ps2 ELSE ps
        msP == IF plan.suggested_pilot # "" THEN ms2 ELSE ms
        chP == IF plan.suggested_pilot # "" THEN ch2 ELSE <<>>
        \* lines 224-229: the drone and the urgent mission
        ds3 == [ds EXCEPT ![di].status = "Assigned",
                          ![di].current_assignment = plan.urgent_mission_id]
        ms3 == [msP EXCEPT ![u].assigned_drone = plan.suggested_drone]
        ch3 == Append(chP, <<"Assigned drone", plan.suggested_drone, ms[u].project_id>>)
    IN IF u = 0 THEN ExecOutcome(ps, ds, ms, "not_found", <<>>)
       ELSE IF plan.suggested_pilot # "" /\ pi = 0
            THEN ExecOutcome(ps, ds, ms1, "exception", ch1)
       ELSE IF plan.suggested_drone # "" /\ di = 0
            THEN ExecOutcome(psP, ds, msP, "exception", chP)
       ELSE IF plan.suggested_drone # ""
            THEN ExecOutcome(psP, ds3, ms3, "ok", ch3)
       ELSE ExecOutcome(psP, ds, msP, "ok", chP)

-----------------------------------------------------------------------------
(* models/*.py: the rows, and their trip through the data source *)

Pilot(pilot_id, skills, certifications, location, status, current_assignment, available_from) ==
    [pilot_id |-> pilot_id, skills |-> skills, certifications |-> certifications,
     location |-> location, status |-> status, current_assignment |-> current_assignment,
     available_from |-> available_from]

Drone(drone_id, capabilities, status, location, current_assignment, maintenance_due) ==
    [drone_id |-> drone_id, capabilities |-> capabilities, status |-> status,
     location |-> location, current_assignment |-> current_assignment,
     maintenance_due |-> maintenance_due]

Mission(project_id, location, required_skills, required_certs, start_date, end_date, priority, assigned_pilot, assigned_drone) ==
    [project_id |-> project_id, location |-> location, required_skills |-> required_skills,
     required_certs |-> required_certs, start_date |-> start_date, end_date |-> end_date,
     priority |-> priority, assigned_pilot |-> assigned_pilot,
     assigned_drone |-> assigned_drone]

\* the dash to_dict writes for an empty assignment
Dash == "-"

\* to_dict: `self.current_assignment or "-"`; the lists and dates are joined and
\* formatted, and parsed back to the same values by from_dict
AssignmentToDict(a) == IF a = "" THEN Dash ELSE a

\* from_dict: the markers of an empty cell become ""
AssignmentFromDict(a) == IF a \in {Dash, "", "nan", "None"} THEN "" ELSE a

PilotToDict(p) == [p EXCEPT !.current_assignment = AssignmentToDict(@)]
PilotFromDict(row) == [row EXCEPT !.current_assignment = AssignmentFromDict(@)]
DroneToDict(d) == [d EXCEPT !.current_assignment = AssignmentToDict(@)]
DroneFromDict(row) == [row EXCEPT !.current_assignment = AssignmentFromDict(@)]
MissionToDict(m) == [m EXCEPT !.assigned_pilot = AssignmentToDict(@),
                              !.assigned_drone = AssignmentToDict(@)]
MissionFromDict(row) == [row EXCEPT !.assigned_pilot = AssignmentFromDict(@),
                                    !.assigned_drone = AssignmentFromDict(@)]

\* DataStore.save_all: the three files as it writes them
save_all(ps, ds, ms) ==
    [pilots |-> [i \in DOMAIN ps |-> PilotToDict(ps[i])],
     drones |-> [i \in DOMAIN ds |-> DroneToDict(ds[i])],
     missions |-> [i \in DOMAIN ms |-> MissionToDict(ms[i])]]

load_pilots(src) == [i \in DOMAIN src.pilots |-> PilotFromDict(src.pilots[i])]
load_drones(src) == [i \in DOMAIN src.drones |-> DroneFromDict(src.drones[i])]
load_missions(src) == [i \in DOMAIN src.missions |-> MissionFromDict(src.missions[i])]

-----------------------------------------------------------------------------
(* agent/coordinator_agent.py: DataStore lookups.  An identifier in a message is an
   id; names, models and clients are other words than ids, and finding a row by its
   name is finding it by its id. *)

find_pilot(ps, identifier) ==
    LET Is(p) == p.pilot_id = identifier IN FirstIndex(ps, Is)

find_drone(ds, identifier) ==
    LET Is(d) == d.drone_id = identifier IN FirstIndex(ds, Is)

find_mission(ms, identifier) ==
    LET Is(m) == m.project_id = identifier IN FirstIndex(ms, Is)

\* What an operation did: its name, how it ended, whether it called save_all, how many
\* lines it appended to the decision log, and what it returned.
Ret(op, outcome, didSave, logged, value) ==
    [op |-> op, outcome |-> outcome, saved |-> didSave, logged |-> logged, value |-> value]

Idle == [pc |-> "idle"]

\* What a handler leaves behind: the three lists and its Ret
Effect(ps, ds, ms, r) == [pilots |-> ps, drones |-> ds, missions |-> ms, ret |-> r]

-----------------------------------------------------------------------------
(* agent/coordinator_agent.py: the handlers, each as the effect of one whole call *)

\* _handle_update_status(params, store)
UpdateStatus(ps, ds, ms, name, new_status) ==
    LET pi == find_pilot(ps, name)
        di == find_drone(ds, name)
    IN IF name = "" \/ new_status = ""
       THEN Effect(ps, ds, ms, Ret("update_status", "usage", FALSE, 0, <<>>))
       ELSE IF pi # 0
       THEN Effect([ps EXCEPT ![pi].status = new_status,
                              ![pi].current_assignment =
                                  IF new_status \in {"On Leave", "Available"} THEN "" ELSE @],
                   ds, ms,
                   Ret("update_status", "ok", TRUE, 1, "pilot"))
       ELSE IF di # 0
       THEN Effect(ps, [ds EXCEPT ![di].status = new_status], ms,
                   Ret("update_status", "ok", TRUE, 0, "drone"))
       ELSE Effect(ps, ds, ms, Ret("update_status", "not_found", FALSE, 0, <<>>))

\* _handle_cancel_mission(params, store)
CancelMission(ps, ds, ms, mid) ==
    LET mi == find_mission(ms, mid)
        m == ms[mi]
        pi == find_pilot(ps, m.assigned_pilot)
        di == find_drone(ds, m.assigned_drone)
        freedPilot == m.assigned_pilot # "" /\ pi # 0
        freedDrone == m.assigned_drone # "" /\ di # 0
        ps1 == IF freedPilot
               THEN [ps EXCEPT ![pi].status = "Available", ![pi].current_assignment = ""]
               ELSE ps
        ms1 == IF m.assigned_pilot # "" THEN [ms EXCEPT ![mi].assigned_pilot = ""] ELSE ms
        ds1 == IF freedDrone
               THEN [ds EXCEPT ![di].status = "Available", ![di].current_assignment = ""]
               ELSE ds
        ms2 == IF m.assigned_drone # "" THEN [ms1 EXCEPT ![mi].assigned_drone = ""] ELSE ms1
        changes == (IF freedPilot THEN <<<<"pilot", m.assigned_pilot>>>> ELSE <<>>)
                   \o (IF freedDrone THEN <<<<"drone", m.assigned_drone>>>> ELSE <<>>)
    IN IF mid = ""
       THEN Effect(ps, ds, ms, Ret("cancel_mission", "usage", FALSE, 0, <<>>))
       ELSE IF mi = 0
       THEN Effect(ps, ds, ms, Ret("cancel_mission", "not_found", FALSE, 0, <<>>))
       ELSE IF changes = <<>>
       THEN Effect(ps1, ds1, ms2, Ret("cancel_mission", "info", FALSE, 0, <<>>))
       ELSE Effect(ps1, ds1, ms2, Ret("cancel_mission", "ok", TRUE, 1, Len(changes)))

\* _handle_unassign(params, store)
Unassign(ps, ds, ms, pid, did, name) ==
    LET pi == IF pid # "" THEN find_pilot(ps, pid)
              ELSE IF name # "" THEN find_pilot(ps, name) ELSE 0
        p == ps[pi]
        pilotHeld == p.status = "Assigned" \/ p.current_assignment # ""
        pm == find_mission(ms, p.current_assignment)
        ms1 == IF pi # 0 /\ pilotHeld /\ p.current_assignment # "" /\ pm # 0
                  /\ ms[pm].assigned_pilot = p.pilot_id
               THEN [ms EXCEPT ![pm].assigned_pilot = ""] ELSE ms
        ps1 == IF pi # 0 /\ pilotHeld
               THEN [ps EXCEPT ![pi].status = "Available", ![pi].current_assignment = ""]
               ELSE ps
        ch1 == IF pi # 0 /\ pilotHeld
               THEN <<<<"pilot", p.pilot_id, p.current_assignment>>>> ELSE <<>>
        di == IF did # "" THEN find_drone(ds, did)
              ELSE IF pi = 0 /\ name # "" THEN find_drone(ds, name) ELSE 0
        d == ds[di]
        droneHeld == d.status = "Assigned" \/ d.current_assignment # ""
        dm == find_mission(ms1, d.current_assignment)
        ms2 == IF di # 0 /\ droneHeld /\ d.current_assignment # "" /\ dm # 0
                  /\ ms1[dm].assigned_drone = d.drone_id
               THEN [ms1 EXCEPT ![dm].assigned_drone = ""] ELSE ms1
        ds1 == IF di # 0 /\ droneHeld
               THEN [ds EXCEPT ![di].status = "Available", ![di].current_assignment = ""]
               ELSE ds
        ch2 == IF di # 0 /\ droneHeld
               THEN Append(ch1, <<"drone", d.drone_id, d.current_assignment>>) ELSE ch1
    IN IF pi # 0 /\ ~pilotHeld
       THEN Effect(ps, ds, ms, Ret("unassign", "info", FALSE, 0, "pilot"))
       ELSE IF di # 0 /\ ~droneHeld
       \* line 641 returns in front of save_all, whatever the pilot branch has done
       THEN Effect(ps1, ds, ms1, Ret("unassign", "info", FALSE, 0, "drone"))
       ELSE IF ch2 = <<>>
       THEN Effect(ps, ds, ms, Ret("unassign", "not_found", FALSE, 0, <<>>))
       ELSE Effect(ps1, ds1, ms2, Ret("unassign", "ok", TRUE, 1, Len(ch2)))

\* handle_confirm_assign(message, store), for a message that names three ids
ConfirmAssign(ps, ds, ms, pilot_id, drone_id, mission_id) ==
    LET pi == find_pilot(ps, pilot_id)
        di == find_drone(ds, drone_id)
        mi == find_mission(ms, mission_id)
        errors == (IF pi = 0 THEN <<<<"Pilot not found", pilot_id>>>> ELSE <<>>)
                  \o (IF di = 0 THEN <<<<"Drone not found", drone_id>>>> ELSE <<>>)
                  \o (IF mi = 0 THEN <<<<"Mission not found", mission_id>>>> ELSE <<>>)
    IN IF errors # <<>>
       THEN Effect(ps, ds, ms, Ret("confirm_assign", "not_found", FALSE, 0, Len(errors)))
       ELSE Effect([ps EXCEPT ![pi].status = "Assigned",
                              ![pi].current_assignment = ms[mi].project_id],
                   [ds EXCEPT ![di].status = "Assigned",
                              ![di].current_assignment = ms[mi].project_id],
                   [ms EXCEPT ![mi].assigned_pilot = ps[pi].pilot_id,
                              ![mi].assigned_drone = ds[di].drone_id],
                   Ret("confirm_assign", "ok", TRUE, 1, <<>>))

\* _handle_urgent_reassign(params, store): the mission it plans for (0: none), and
\* the plans it computes
UrgentMissionIndex(ms, mid) ==
    LET Waiting(m) == m.priority = "Urgent" /\ m.assigned_pilot = ""
    IN IF mid = "" THEN FirstIndex(ms, Waiting) ELSE find_mission(ms, mid)

\* handle_confirm_reassignment(message, store), for a message that names an option
ConfirmReassignment(ps, ds, ms, stored, opt_idx) ==
    IF stored = <<>>
    THEN Effect(ps, ds, ms, Ret("confirm_reassignment", "no_plans", FALSE, 0, <<>>))
    ELSE IF opt_idx < 0 \/ opt_idx >= Len(stored)
    THEN Effect(ps, ds, ms, Ret("confirm_reassignment", "invalid_option", FALSE, 0, <<>>))
    ELSE LET plan == stored[opt_idx + 1]
             out == execute_reassignment(plan, ps, ds, ms)
         IN IF out.outcome = "exception"
            \* StopIteration leaves the handler in front of save_all
            THEN Effect(out.pilots, out.drones, out.missions,
                        Ret("confirm_reassignment", "exception", FALSE, 0, out.changes))
            ELSE Effect(out.pilots, out.drones, out.missions,
                        Ret("confirm_reassignment", out.outcome, TRUE, 1, out.changes))

-----------------------------------------------------------------------------
(* The data the store is loaded with: a roster whose skills, places and dates are
   fixed per row, with every consistent way of assigning its pilots and drones. *)

RosterSkills == <<{"Mapping"}, {"thermal"}, {"mapping", "thermal"}, {}, {}>>
RosterCerts == <<{"DGCA"}, {}, {"dgca"}, {"DGCA"}, {"DGCA"}>>
RosterPilotLocation == <<"Delhi", "pune", "Pune", "", "">>
RosterAvailableFrom == <<1, NoDate, 2, 1, MaxDate>>

FleetCapabilities == <<{"mapping"}, {"Thermal"}, {"mapping", "thermal"}, {}>>
FleetLocation == <<"delhi", "Pune", "", "Delhi">>
FleetMaintenanceDue == <<MaxDate, NoDate, 1, 2>>

OrderLocation == <<"delhi", "Pune", "Delhi", "">>
OrderSkills == <<{"mapping"}, {"Thermal"}, {"mapping", "thermal"}, {}>>
OrderCerts == <<{"dgca"}, {}, {"DGCA"}, {}>>
OrderStart == <<1, 2, 1, NoDate>>
OrderEnd == <<2, MaxDate, MaxDate, 2>>
OrderPriority == <<"Urgent", "Low", "Standard", "High">>

\* the rows of a consistent snapshot: aP / aD give each mission its pilot / drone,
\* sP / sD the status of the pilots / drones no mission holds
RosterPilots(aP, sP) ==
    [i \in 1..Min(NumPilots, 4) |->
        LET held == {k \in DOMAIN aP : aP[k] = PilotIdOf[i]} IN
        Pilot(PilotIdOf[i], RosterSkills[i], RosterCerts[i], RosterPilotLocation[i],
              IF held # {} THEN "Assigned" ELSE sP[i],
              IF held # {} THEN MissionIdOf[CHOOSE k \in held : TRUE] ELSE "",
              RosterAvailableFrom[i])]

FleetDrones(aD, sD) ==
    [i \in 1..Min(NumDrones, 4) |->
        LET held == {k \in DOMAIN aD : aD[k] = DroneIdOf[i]} IN
        Drone(DroneIdOf[i], FleetCapabilities[i],
              IF held # {} THEN "Assigned" ELSE sD[i],
              FleetLocation[i],
              IF held # {} THEN MissionIdOf[CHOOSE k \in held : TRUE] ELSE "",
              FleetMaintenanceDue[i])]

OrderMissions(aP, aD) ==
    [k \in 1..Min(NumMissions, 4) |->
        Mission(MissionIdOf[k], OrderLocation[k], OrderSkills[k], OrderCerts[k],
                OrderStart[k], OrderEnd[k], OrderPriority[k], aP[k], aD[k])]

\* no two missions hold the same pilot / drone
OneEach(a) == \A j, k \in DOMAIN a : (j # k /\ a[j] # "") => a[j] # a[k]

InitStore ==
    \E aP \in [1..Min(NumMissions, 4) -> PilotIds \cup {""}],
       aD \in [1..Min(NumMissions, 4) -> DroneIds \cup {""}],
       sP \in [1..Min(NumPilots, 4) -> {"Available", "On Leave", "Inactive"}],
       sD \in [1..Min(NumDrones, 4) -> {"Available", "Maintenance"}] :
        /\ OneEach(aP)
        /\ OneEach(aD)
        /\ pilots = RosterPilots(aP, sP)
        /\ drones = FleetDrones(aD, sD)
        /\ missions = OrderMissions(aP, aD)

Init ==
    /\ InitStore
    /\ saved = save_all(pilots, drones, missions)
    /\ plans = <<>>
    /\ ret = Ret("load", "ok", FALSE, 0, <<>>)
    /\ sent = 0
    /\ session = Idle
    /\ obs = <<>>

-----------------------------------------------------------------------------
(* The messages a session sends *)

UnknownId == "X9"
PilotWords == PilotIds \cup {UnknownId}
DroneWords == DroneIds \cup {UnknownId}
MissionWords == MissionIds \cup {UnknownId}

\* detect_intent finds "on leave", "available" or "inactive" in an update message: a
\* message with "assigned" in it has "assign" in it and is an assignment query
NewStatuses == {"On Leave", "Available", "Inactive"}

\* a handler's effect, with the save_all it ran
Apply(e) ==
    /\ sent < MaxMessages
    /\ sent' = sent + 1
    /\ pilots' = e.pilots
    /\ drones' = e.drones
    /\ missions' = e.missions
    /\ ret' = e.ret
    /\ saved' = IF e.ret.saved THEN save_all(e.pilots, e.drones, e.missions) ELSE saved

\* process_message: "reload"
Reload ==
    /\ sent < MaxMessages
    /\ sent' = sent + 1
    /\ pilots' = load_pilots(saved)
    /\ drones' = load_drones(saved)
    /\ missions' = load_missions(saved)
    /\ ret' = Ret("reload", "ok", FALSE, 0, <<>>)
    /\ UNCHANGED <<saved, plans, session, obs>>

HandleUpdateStatus ==
    \E name \in PilotWords \cup DroneWords \cup {""}, new_status \in NewStatuses \cup {""} :
        /\ Apply(UpdateStatus(pilots, drones, missions, name, new_status))
        /\ UNCHANGED <<plans, session, obs>>

HandleCancelMission ==
    \E mid \in MissionWords \cup {""} :
        /\ Apply(CancelMission(pilots, drones, missions, mid))
        /\ UNCHANGED <<plans, session, obs>>

HandleUnassign ==
    \E pid \in PilotWords \cup {""}, did \in DroneWords \cup {""} :
        /\ Apply(Unassign(pilots, drones, missions, pid, did, ""))
        /\ UNCHANGED <<plans, session, obs>>

HandleConfirmAssign ==
    \E pilot_id \in PilotWords, drone_id \in DroneWords, mission_id \in MissionWords :
        /\ Apply(ConfirmAssign(pilots, drones, missions, pilot_id, drone_id, mission_id))
        /\ UNCHANGED <<plans, session, obs>>

\* an urgent-reassignment request that already books the pilot of its first plan
HandleUrgentReassign_Reserving ==
    \E mid \in MissionWords \cup {""} :
        LET mi == UrgentMissionIndex(missions, mid)
            found == suggest_reassignment(missions[mi], pilots, drones, missions)
            pi == find_pilot(pilots, found[1].suggested_pilot)
        IN /\ sent < MaxMessages
           /\ sent' = sent + 1
           /\ mi # 0
           /\ found # <<>>
           /\ ret' = Ret("urgent_reassign", "ok", FALSE, 0, <<>>)
           /\ plans' = found
           /\ pilots' = [pilots EXCEPT ![pi].status = "Assigned"]
           /\ UNCHANGED <<drones, missions, saved, session, obs>>

HandleUrgentReassign ==
    \E mid \in MissionWords \cup {""} :
        LET mi == UrgentMissionIndex(missions, mid)
            found == suggest_reassignment(missions[mi], pilots, drones, missions)
        IN /\ sent < MaxMessages
           /\ sent' = sent + 1
           /\ IF mi = 0
              THEN /\ ret' = Ret("urgent_reassign", IF mid = "" THEN "usage" ELSE "not_found",
                                 FALSE, 0, <<>>)
                   /\ plans' = plans
              ELSE IF found = <<>>
              THEN /\ ret' = Ret("urgent_reassign", "no_options", FALSE, 0, <<>>)
                   /\ plans' = plans
              ELSE /\ ret' = Ret("urgent_reassign", "ok", FALSE, 0, <<>>)
                   /\ plans' = found
           /\ UNCHANGED <<pilots, drones, missions, saved, session, obs>>

HandleConfirmReassignment ==
    \E opt_idx \in -1..Len(plans) :
        /\ Apply(ConfirmReassignment(pilots, drones, missions, plans, opt_idx))
        /\ UNCHANGED <<plans, session, obs>>

\* _handle_assign(params, store)
HandleAssign ==
    \E mid \in MissionWords \cup {""} :
        LET mi == find_mission(missions, mid) IN
        /\ sent < MaxMessages
        /\ sent' = sent + 1
        /\ ret' = IF mid = "" THEN Ret("assign", "usage", FALSE, 0, <<>>)
                  ELSE IF mi = 0 THEN Ret("assign", "not_found", FALSE, 0, <<>>)
                  ELSE Ret("assign", "ok", FALSE, 0,
                           <<find_best_pilots(pilots, missions[mi], 3),
                             find_best_drones(drones, missions[mi], 3)>>)
        /\ UNCHANGED <<pilots, drones, missions, saved, plans, session, obs>>

\* _handle_conflicts(params, store)
HandleConflicts ==
    /\ sent < MaxMessages
    /\ sent' = sent + 1
    /\ ret' = Ret("conflicts", "ok", FALSE, 0, detect_all_conflicts(pilots, drones, missions))
    /\ UNCHANGED <<pilots, drones, missions, saved, plans, session, obs>>

Next ==
    \/ Reload
    \/ HandleUpdateStatus
    \/ HandleCancelMission
    \/ HandleUnassign
    \/ HandleConfirmAssign
    \/ HandleUrgentReassign
    \/ HandleConfirmReassignment
    \/ HandleAssign
    \/ HandleConflicts

Spec == Init /\ [][Next]_vars

-----------------------------------------------------------------------------
(* execute_reassignment as the engine exposes it: called with a plan and the lists
   the caller holds.  A stored plan outlives a reload of the store from a data
   source that others edit, so the plan may name a mission, pilot or drone that
   the lists no longer hold. *)

PlanInputs ==
    {SwapPlan(u, p, 0, d, 0, dm, IF dm = "" THEN "" ELSE "Low", 0, <<>>) :
        u \in MissionWords, p \in PilotWords \cup {""},
        d \in DroneWords \cup {""}, dm \in MissionWords \cup {""}}

InitExec ==
    /\ InitStore
    /\ saved = save_all(pilots, drones, missions)
    /\ \E plan \in PlanInputs : plans = <<plan>>
    /\ ret = Ret("load", "ok", FALSE, 0, <<>>)
    /\ sent = 0
    /\ session = Idle
    /\ obs = <<>>

\* how often one plan is executed
MaxExecutions == 2

ExecuteReassignment ==
    LET out == execute_reassignment(plans[1], pilots, drones, missions) IN
    /\ sent < MaxExecutions
    /\ sent' = sent + 1
    /\ pilots' = out.pilots
    /\ drones' = out.drones
    /\ missions' = out.missions
    /\ ret' = Ret("execute_reassignment", out.outcome, FALSE, 0, out.changes)
    /\ UNCHANGED <<saved, plans, session, obs>>

NextExec == ExecuteReassignment

SpecExec == InitExec /\ [][NextExec]_vars

-----------------------------------------------------------------------------
(* Two sessions on the one DataStore that get_data_store() caches: the writing *)
(* session runs _handle_cancel_mission or handle_confirm_assign one statement  *)
(* at a time (nothing in the code takes a lock), the reading session's script  *)
(* looks at the lists in between.                                              *)

At(label, mi, pi, di, changes) ==
    [pc |-> label, mission |-> mi, pilot |-> pi, drone |-> di, changes |-> changes]

\* a mission names a pilot or a drone that does not hold it
HalfUpdated(ps, ds, ms) ==
    \E k \in DOMAIN ms :
        \/ /\ ms[k].assigned_pilot # ""
           /\ \E i \in DOMAIN ps :
                 /\ ps[i].pilot_id = ms[k].assigned_pilot
                 /\ (ps[i].current_assignment # ms[k].project_id \/ ps[i].status # "Assigned")
        \/ /\ ms[k].assigned_drone # ""
           /\ \E i \in DOMAIN ds :
                 /\ ds[i].drone_id = ms[k].assigned_drone
                 /\ (ds[i].current_assignment # ms[k].project_id \/ ds[i].status # "Assigned")

InitConc == Init

Keep(pc) == /\ session.pc = pc
            /\ UNCHANGED <<saved, plans, ret, sent, obs>>

\* _handle_cancel_mission, lines 552-561: the lookups in front of the writes
Cancel_Call ==
    \E mid \in MissionWords :
        LET mi == find_mission(missions, mid) IN
        /\ session = Idle
        /\ sent < MaxMessages
        /\ sent' = sent + 1
        /\ IF mi = 0
           THEN /\ ret' = Ret("cancel_mission", "not_found", FALSE, 0, <<>>)
                /\ session' = Idle
           ELSE /\ ret' = Ret("cancel_mission", "running", FALSE, 0, <<>>)
                /\ session' = At("cancel_564", mi, 0, 0, 0)
        /\ UNCHANGED <<pilots, drones, missions, saved, plans, obs>>

\* lines 564-566: pilot.status = "Available"
Cancel_564 ==
    LET m == missions[session.mission]
        pi == find_pilot(pilots, m.assigned_pilot) IN
    /\ Keep("cancel_564")
    /\ IF m.assigned_pilot = ""
       THEN /\ session' = [session EXCEPT !.pc = "cancel_573"]
            /\ UNCHANGED pilots
       ELSE IF pi = 0
       THEN /\ session' = [session EXCEPT !.pc = "cancel_569"]
            /\ UNCHANGED pilots
       ELSE /\ pilots' = [pilots EXCEPT ![pi].status = "Available"]
            /\ session' = [session EXCEPT !.pc = "cancel_567", !.pilot = pi]
    /\ UNCHANGED <<drones, missions>>

\* lines 567-568: pilot.current_assignment = ""
Cancel_567 ==
    /\ Keep("cancel_567")
    /\ pilots' = [pilots EXCEPT ![session.pilot].current_assignment = ""]
    /\ session' = [session EXCEPT !.pc = "cancel_569", !.changes = @ + 1]
    /\ UNCHANGED <<drones, missions>>

\* line 569: mission.assigned_pilot = ""
Cancel_569 ==
    /\ Keep("cancel_569")
    /\ missions' = [missions EXCEPT ![session.mission].assigned_pilot = ""]
    /\ session' = [session EXCEPT !.pc = "cancel_573"]
    /\ UNCHANGED <<pilots, drones>>

\* lines 572-575: drone.status = "Available"
Cancel_573 ==
    LET m == missions[session.mission]
        di == find_drone(drones, m.assigned_drone) IN
    /\ Keep("cancel_573")
    /\ IF m.assigned_drone = ""
       THEN /\ session' = [session EXCEPT !.pc = "cancel_580"]
            /\ UNCHANGED drones
       ELSE IF di = 0
       THEN /\ session' = [session EXCEPT !.pc = "cancel_578"]
            /\ UNCHANGED drones
       ELSE /\ drones' = [drones EXCEPT ![di].status = "Available"]
            /\ session' = [session EXCEPT !.pc = "cancel_576", !.drone = di]
    /\ UNCHANGED <<pilots, missions>>

\* lines 576-577: drone.current_assignment = ""
Cancel_576 ==
    /\ Keep("cancel_576")
    /\ drones' = [drones EXCEPT ![session.drone].current_assignment = ""]
    /\ session' = [session EXCEPT !.pc = "cancel_578", !.changes = @ + 1]
    /\ UNCHANGED <<pilots, missions>>

\* line 578: mission.assigned_drone = ""
Cancel_578 ==
    /\ Keep("cancel_578")
    /\ missions' = [missions EXCEPT ![session.mission].assigned_drone = ""]
    /\ session' = [session EXCEPT !.pc = "cancel_580"]
    /\ UNCHANGED <<pilots, drones>>

\* lines 580-591: save_all, the log entry and the reply
Cancel_580 ==
    /\ session.pc = "cancel_580"
    /\ session' = Idle
    /\ IF session.changes = 0
       THEN /\ ret' = Ret("cancel_mission", "info", FALSE, 0, <<>>)
            /\ UNCHANGED saved
       ELSE /\ ret' = Ret("cancel_mission", "ok", TRUE, 1, session.changes)
            /\ saved' = save_all(pilots, drones, missions)
    /\ UNCHANGED <<pilots, drones, missions, plans, sent, obs>>

\* handle_confirm_assign, lines 707-729: the lookups in front of the writes
Confirm_Call ==
    \E pid \in PilotWords, did \in DroneWords, mid \in MissionWords :
        LET pi == find_pilot(pilots, pid)
            di == find_drone(drones, did)
            mi == find_mission(missions, mid) IN
        /\ session = Idle
        /\ sent < MaxMessages
        /\ sent' = sent + 1
        /\ IF pi = 0 \/ di = 0 \/ mi = 0
           THEN /\ ret' = Ret("confirm_assign", "not_found", FALSE, 0, <<>>)
                /\ session' = Idle
           ELSE /\ ret' = Ret("confirm_assign", "running", FALSE, 0, <<>>)
                /\ session' = At("confirm_733", mi, pi, di, 0)
        /\ UNCHANGED <<pilots, drones, missions, saved, plans, obs>>

\* line 733: pilot.status = "Assigned"
Confirm_733 ==
    /\ Keep("confirm_733")
    /\ pilots' = [pilots EXCEPT ![session.pilot].status = "Assigned"]
    /\ session' = [session EXCEPT !.pc = "confirm_734"]
    /\ UNCHANGED <<drones, missions>>

\* line 734: pilot.current_assignment = mission.project_id
Confirm_734 ==
    /\ Keep("confirm_734")
    /\ pilots' = [pilots EXCEPT ![session.pilot].current_assignment =
                                    missions[session.mission].project_id]
    /\ session' = [session EXCEPT !.pc = "confirm_735"]
    /\ UNCHANGED <<drones, missions>>

\* line 735: drone.status = "Assigned"
Confirm_735 ==
    /\ Keep("confirm_735")
    /\ drones' = [drones EXCEPT ![session.drone].status = "Assigned"]
    /\ session' = [session EXCEPT !.pc = "confirm_736"]
    /\ UNCHANGED <<pilots, missions>>

\* line 736: drone.current_assignment = mission.project_id
Confirm_736 ==
    /\ Keep("confirm_736")
    /\ drones' = [drones EXCEPT ![session.drone].current_assignment =
                                    missions[session.mission].project_id]
    /\ session' = [session EXCEPT !.pc = "confirm_737"]
    /\ UNCHANGED <<pilots, missions>>

\* line 737: mission.assigned_pilot = pilot.pilot_id
Confirm_737 ==
    /\ Keep("confirm_737")
    /\ missions' = [missions EXCEPT ![session.mission].assigned_pilot =
                                        pilots[session.pilot].pilot_id]
    /\ session' = [session EXCEPT !.pc = "confirm_738"]
    /\ UNCHANGED <<pilots, drones>>

\* line 738: mission.assigned_drone = drone.drone_id
Confirm_738 ==
    /\ Keep("confirm_738")
    /\ missions' = [missions EXCEPT ![session.mission].assigned_drone =
                                        drones[session.drone].drone_id]
    /\ session' = [session EXCEPT !.pc = "confirm_740"]
    /\ UNCHANGED <<pilots, drones>>

\* lines 740-752: save_all, the log entry and the reply
Confirm_740 ==
    /\ session.pc = "confirm_740"
    /\ session' = Idle
    /\ ret' = Ret("confirm_assign", "ok", TRUE, 1, <<>>)
    /\ saved' = save_all(pilots, drones, missions)
    /\ UNCHANGED <<pilots, drones, missions, plans, sent, obs>>

\* the other session's script reads the lists (app.py line 47 and after)
Observe ==
    /\ obs' = [during |-> session.pc,
               half_updated |-> HalfUpdated(pilots, drones, missions)]
    /\ UNCHANGED <<pilots, drones, missions, saved, plans, ret, sent, session>>

NextConc ==
    \/ Cancel_Call \/ Cancel_564 \/ Cancel_567 \/ Cancel_569
    \/ Cancel_573 \/ Cancel_576 \/ Cancel_578 \/ Cancel_580
    \/ Confirm_Call \/ Confirm_733 \/ Confirm_734 \/ Confirm_735
    \/ Confirm_736 \/ Confirm_737 \/ Confirm_738 \/ Confirm_740
    \/ Observe

SpecConc == InitConc /\ [][NextConc]_vars

-----------------------------------------------------------------------------
(* The queries on lists of any content: a sheet may hold any rows, consistent  *)
(* or not.                                                                     *)

\* how many pilots, drones or missions a queried list holds at most
MaxListed == 3

Quiet == /\ saved = save_all(pilots, drones, missions)
         /\ plans = <<>>
         /\ ret = Ret("load", "ok", FALSE, 0, <<>>)
         /\ sent = 0
         /\ session = Idle
         /\ obs = <<>>

Asked(op, value) ==
    /\ sent = 0
    /\ sent' = 1
    /\ ret' = Ret(op, "ok", FALSE, 0, value)
    /\ UNCHANGED <<pilots, drones, missions, saved, plans, session, obs>>

\* n pilots / drones, each with the skills, place and dates of a roster row
ListedPilots(n, row, status) ==
    [i \in 1..n |->
        Pilot(PilotIdOf[i], RosterSkills[row[i]], RosterCerts[row[i]],
              RosterPilotLocation[row[i]], status[i], "", RosterAvailableFrom[row[i]])]

ListedDrones(n, row, status) ==
    [i \in 1..n |->
        Drone(DroneIdOf[i], FleetCapabilities[row[i]], status[i],
              FleetLocation[row[i]], "", FleetMaintenanceDue[row[i]])]

ListedMissions(range, aP, aD) ==
    [k \in 1..Min(MaxListed, 4) |->
        Mission(MissionIdOf[k], OrderLocation[k], OrderSkills[k], OrderCerts[k],
                range[k][1], range[k][2], OrderPriority[k], aP[k], aD[k])]

Listed == 1..Min(MaxListed, 4)

InitMatch ==
    /\ \E n \in 0..Min(MaxListed, 4) :
          \E row \in [1..n -> 1..4],
             status \in [1..n -> {"Available", "Assigned", "On Leave"}] :
              \/ /\ pilots = ListedPilots(n, row, status)
                 /\ drones = <<>>
              \/ /\ pilots = <<>>
                 /\ drones = ListedDrones(n, row, [i \in 1..n |->
                                 IF status[i] = "On Leave" THEN "Maintenance" ELSE status[i]])
    /\ missions = ListedMissions([k \in Listed |-> <<OrderStart[k], OrderEnd[k]>>],
                                 [k \in Listed |-> ""], [k \in Listed |-> ""])
    /\ Quiet

FindBestPilots ==
    \E k \in DOMAIN missions, top_n \in 0..MaxListed :
        Asked("find_best_pilots",
              [mission |-> k, top_n |-> top_n,
               result |-> find_best_pilots(pilots, missions[k], top_n)])

FindBestDrones ==
    \E k \in DOMAIN missions, top_n \in 0..MaxListed :
        Asked("find_best_drones",
              [mission |-> k, top_n |-> top_n,
               result |-> find_best_drones(drones, missions[k], top_n)])

NextMatch == FindBestPilots \/ FindBestDrones

SpecMatch == InitMatch /\ [][NextMatch]_vars

\* two missions with any dates, set or not, in order or not
InitOverlap ==
    /\ \E a, b \in (Dates \cup {NoDate}) \X (Dates \cup {NoDate}) :
          missions = <<Mission(MissionIdOf[1], OrderLocation[1], OrderSkills[1], OrderCerts[1],
                               a[1], a[2], OrderPriority[1], "", ""),
                       Mission(MissionIdOf[2], OrderLocation[2], OrderSkills[2], OrderCerts[2],
                               b[1], b[2], OrderPriority[2], "", "")>>
    /\ pilots = <<>>
    /\ drones = <<>>
    /\ Quiet

OverlapsWith ==
    \E i, j \in DOMAIN missions :
        Asked("overlaps_with",
              [self |-> i, other |-> j, result |-> overlaps_with(missions[i], missions[j])])

NextOverlap == OverlapsWith

SpecOverlap == InitOverlap /\ [][NextOverlap]_vars

\* the date ranges and the holders a listed mission takes
DateRanges == {<<1, 2>>, <<2, MaxDate>>, <<MaxDate, MaxDate>>, <<NoDate, 2>>, <<2, 2>>}
Holders == {<<"", "">>, <<PilotIdOf[1], "">>, <<PilotIdOf[1], DroneIdOf[1]>>,
            <<PilotIdOf[2], DroneIdOf[1]>>, <<"", DroneIdOf[1]>>}

InitDetect ==
    /\ \E range \in [Listed -> DateRanges], held \in [Listed -> Holders] :
          missions = ListedMissions(range, [k \in Listed |-> held[k][1]],
                                    [k \in Listed |-> held[k][2]])
    /\ pilots = ListedPilots(2, <<1, 2>>, <<"Assigned", "Assigned">>)
    /\ drones = ListedDrones(1, <<1>>, <<"Assigned">>)
    /\ Quiet

\* app.py line 47 and _handle_conflicts: one scan of the lists
DetectAllConflicts ==
    /\ ret.op = "load"
    /\ Asked("detect_all_conflicts",
             [calls |-> 1, result |-> detect_all_conflicts(pilots, drones, missions),
              before |-> <<>>])

\* the next scan of the same lists
DetectAllConflictsAgain ==
    /\ sent = 1
    /\ sent' = 2
    /\ ret' = Ret("detect_all_conflicts", "ok", FALSE, 0,
                  [calls |-> 2, result |-> detect_all_conflicts(pilots, drones, missions),
                   before |-> ret.value.result])
    /\ UNCHANGED <<pilots, drones, missions, saved, plans, session, obs>>

NextDetect == DetectAllConflicts \/ DetectAllConflictsAgain

SpecDetect == InitDetect /\ [][NextDetect]_vars

-----------------------------------------------------------------------------
(* detect_maintenance_conflicts and detect_location_mismatches, each called on *)
(* its own with lists whose places, due dates and statuses vary.               *)

\* what a scanned mission is: its place, its end date, its pilot and drone
ScanPlaces == {"delhi", "Pune", ""}
ScanEnds == {NoDate, 1, MaxDate}
ScanHolders == {<<"", "">>, <<PilotIdOf[1], DroneIdOf[1]>>, <<PilotIdOf[2], DroneIdOf[1]>>,
                <<PilotIdOf[1], UnknownId>>}

InitScan ==
    /\ \E place \in [1..NumMissions -> ScanPlaces], end \in [1..NumMissions -> ScanEnds],
          held \in [1..NumMissions -> ScanHolders] :
          missions = [k \in 1..NumMissions |->
                         Mission(MissionIdOf[k], place[k], OrderSkills[k], OrderCerts[k],
                                 1, end[k], OrderPriority[k], held[k][1], held[k][2])]
    /\ \E first \in {1, 5} :
          pilots = ListedPilots(2, <<first, 2>>, <<"Assigned", "Assigned">>)
    /\ \E row \in 1..4, status \in {"Assigned", "Maintenance"} :
          drones = ListedDrones(1, <<row>>, <<status>>)
    /\ Quiet

DetectMaintenanceConflicts ==
    /\ ret.op = "load"
    /\ Asked("detect_maintenance_conflicts",
             [result |-> detect_maintenance_conflicts(drones, missions)])

DetectLocationMismatches ==
    /\ ret.op = "load"
    /\ Asked("detect_location_mismatches",
             [result |-> detect_location_mismatches(pilots, drones, missions)])

NextScan == DetectMaintenanceConflicts \/ DetectLocationMismatches

SpecScan == InitScan /\ [][NextScan]_vars

-----------------------------------------------------------------------------
(* The reassignment planner on lists of any content, and the risk of any pair  *)
(* of scores the matching engine can give.                                     *)

\* the scores score_pilot_for_mission / score_drone_for_mission give for ratios
\* of 0, a half and 1
PilotScores ==
    {weighted_score(a, b, c, d) : a \in 0..Unit, b \in 0..Unit, c \in {0, Unit}, d \in 0..Unit}
DroneScores ==
    {Fine * (a * 50 + b * 30 + c * 20) : a \in 0..Unit, b \in {0, Unit}, c \in 0..Unit}

\* -1.0 and 2.0: no score of the matching engine
ScoresBeyond == {Fine * (0 - 100 * Unit), Fine * (200 * Unit)}

\* the arguments of one call of _compute_risk_score, held as a plan: is_swap is
\* "displaced_from_mission is set"
InitRisk ==
    /\ \E p \in PilotScores \cup ScoresBeyond, d \in DroneScores \cup ScoresBeyond, from \in {"", MissionIdOf[2]},
          priority \in {"", "Low", "Standard", "High", "Urgent", "Critical"} :
          plans = <<SwapPlan(MissionIdOf[1], "", p, "", d, from, priority, 0, <<>>)>>
    /\ pilots = <<>>
    /\ drones = <<>>
    /\ missions = <<>>
    /\ saved = save_all(pilots, drones, missions)
    /\ ret = Ret("load", "ok", FALSE, 0, <<>>)
    /\ sent = 0
    /\ session = Idle
    /\ obs = <<>>

\* what a listed mission besides the first is: its priority and whether it
\* holds the pilot of its row
Staffing == {<<"Low", TRUE>>, <<"Standard", TRUE>>, <<"High", TRUE>>,
             <<"Urgent", TRUE>>, <<"Low", FALSE>>}

\* the pilots' statuses: none Available, the last one Available, all Available
Crews == {[i \in Listed |-> "Assigned"],
          [i \in Listed |-> IF i = Min(MaxListed, 4) THEN "Available" ELSE "Assigned"],
          [i \in Listed |-> "Available"]}

\* the drones' statuses: no drone, one, two
Fleets == {<<>>, <<"Available">>, <<"Maintenance">>,
           <<"Available", "Available">>, <<"Maintenance", "Available">>}

\* an urgent mission without a pilot, and behind it one mission per pilot
InitSuggest ==
    /\ \E staff \in [Listed -> Staffing], row \in [Listed -> {1, 2, 5}], status \in Crews,
          fleet \in Fleets :
          /\ pilots = ListedPilots(Min(MaxListed, 4), row, status)
          /\ drones = ListedDrones(Len(fleet), <<1, 2>>, fleet)
          /\ missions =
                <<Mission(MissionIdOf[1], OrderLocation[1], OrderSkills[1], OrderCerts[1],
                          OrderStart[1], OrderEnd[1], "Urgent", "", "")>>
                \o [k \in Listed |->
                       Mission(<<"PRJ2", "PRJ3", "PRJ4", "PRJ5">>[k], OrderLocation[k],
                               OrderSkills[k], OrderCerts[k], OrderStart[k], OrderEnd[k],
                               staff[k][1],
                               IF staff[k][2] THEN PilotIdOf[k] ELSE "", "")]
    /\ Quiet

InitPlan == InitRisk \/ InitSuggest

ComputeRiskScore ==
    /\ plans # <<>>
    /\ Asked("_compute_risk_score",
             [result |-> _compute_risk_score(plans[1].pilot_score, plans[1].drone_score,
                                             plans[1].displaced_from_mission # "",
                                             plans[1].displaced_mission_priority)])

SuggestReassignment ==
    \E k \in DOMAIN missions :
        /\ sent = 0
        /\ sent' = 1
        /\ ret' = Ret("suggest_reassignment", "ok", FALSE, 0, [mission |-> k])
        /\ plans' = suggest_reassignment(missions[k], pilots, drones, missions)
        /\ UNCHANGED <<pilots, drones, missions, saved, session, obs>>

NextPlan == ComputeRiskScore \/ SuggestReassignment

SpecPlan == InitPlan /\ [][NextPlan]_vars

-----------------------------------------------------------------------------
(* Properties of the assignment relation *)

IdsOf(ms) == {ms[i].project_id : i \in DOMAIN ms}

PilotHolds(m) ==
    \E i \in DOMAIN pilots :
        /\ pilots[i].pilot_id = m.assigned_pilot
        /\ pilots[i].current_assignment = m.project_id
        /\ pilots[i].status = "Assigned"

DroneHolds(m) ==
    \E i \in DOMAIN drones :
        /\ drones[i].drone_id = m.assigned_drone
        /\ drones[i].current_assignment = m.project_id
        /\ drones[i].status = "Assigned"

\* C1: after any sequence of mutators from a consistent snapshot, every mission
\* with an assigned pilot P has P Assigned with current_assignment that mission,
\* and every mission with an assigned drone D has D Assigned to that mission.
C1_MissionSideConsistent ==
    \A k \in DOMAIN missions :
        /\ missions[k].assigned_pilot # "" => PilotHolds(missions[k])
        /\ missions[k].assigned_drone # "" => DroneHolds(missions[k])

StatusAgrees(e) ==
    /\ e.status = "Assigned" => e.current_assignment # ""
    /\ e.status \in {"Available", "On Leave", "Maintenance", "Inactive"}
          => e.current_assignment = ""

\* C2: in every state the mutators reach, an Assigned pilot or drone has a
\* non-empty current_assignment, and an Available, On Leave, Maintenance or
\* Inactive one has an empty current_assignment.
C2_StatusMatchesAssignment ==
    /\ \A i \in DOMAIN pilots : StatusAgrees(pilots[i])
    /\ \A i \in DOMAIN drones : StatusAgrees(drones[i])

\* C3: a mutator that fails because a pilot, drone or mission it refers to cannot
\* be found leaves every pilot, drone and mission field as it was: in particular
\* execute_reassignment does not end in failure after a part of its update.
C3_FailureLeavesSnapshot ==
    [][(sent' # sent /\ ret'.outcome \in {"not_found", "exception"})
          => (pilots' = pilots /\ drones' = drones /\ missions' = missions)]_vars

\* C4: execute_reassignment with a plan whose urgent_mission_id is the id of no
\* mission in the list returns the not-found failure and changes no field of any
\* pilot, drone or mission.
C4_UnknownUrgentMission ==
    [][(sent' # sent /\ ret'.op = "execute_reassignment"
        /\ plans[1].urgent_mission_id \notin IdsOf(missions))
          => (/\ ret'.outcome = "not_found"
              /\ pilots' = pilots /\ drones' = drones /\ missions' = missions)]_vars

\* C4's case: the plan names no known mission, and names a pilot, a drone and a
\* displaced mission that execute_reassignment would otherwise have written to
C4_Witness ==
    /\ ret.op = "execute_reassignment"
    /\ ret.outcome = "not_found"
    /\ plans[1].urgent_mission_id \notin IdsOf(missions)
    /\ plans[1].suggested_pilot \in PilotIds
    /\ plans[1].suggested_drone \in DroneIds
    /\ \E k \in DOMAIN missions :
          /\ missions[k].project_id = plans[1].displaced_from_mission
          /\ missions[k].assigned_pilot # ""

\* C5: a reader that looks at the lists while a mutating call is between its
\* field writes never sees a half-updated pair: a mission that names pilot P
\* (drone D) while P's (D's) current_assignment is another mission or its status
\* is not Assigned.
C5_NoHalfUpdatedPair ==
    (obs # <<>> /\ obs.during # "idle") => ~obs.half_updated

RangesIntersect(a, b) ==
    /\ a.start_date # NoDate /\ a.end_date # NoDate
    /\ b.start_date # NoDate /\ b.end_date # NoDate
    /\ a.start_date <= b.end_date
    /\ b.start_date <= a.end_date

\* the Double Booking conflicts of entity eid for the missions a and b, in this order
BookingsOf(res, eid, a, b) ==
    {k \in DOMAIN res : /\ res[k].conflict_type = "Double Booking"
                        /\ res[k].entity_id = eid
                        /\ res[k].mission_id = <<a, b>>}

SamePilot(i, j) ==
    /\ missions[i].assigned_pilot # ""
    /\ missions[i].assigned_pilot = missions[j].assigned_pilot
    /\ \E p \in DOMAIN pilots : pilots[p].pilot_id = missions[i].assigned_pilot

SameDrone(i, j) ==
    /\ missions[i].assigned_drone # ""
    /\ missions[i].assigned_drone = missions[j].assigned_drone
    /\ \E d \in DOMAIN drones : drones[d].drone_id = missions[i].assigned_drone

\* C6: for every pilot (drone) and every pair i < j of the missions assigned
\* to it, the detection holds exactly one Double Booking conflict, Critical, if
\* the two date ranges overlap and none if they do not; it holds no other Double
\* Booking conflict, so k mutually overlapping missions give C(k, 2) of them.
C6_OneConflictPerOverlappingPair ==
    ret.op = "detect_all_conflicts" =>
        LET res == ret.value.result
            Want(i, j) == IF RangesIntersect(missions[i], missions[j]) THEN 1 ELSE 0
        IN /\ \A i, j \in DOMAIN missions :
                (i < j /\ SamePilot(i, j)) =>
                    Cardinality(BookingsOf(res, missions[i].assigned_pilot,
                                           missions[i].project_id, missions[j].project_id))
                        = Want(i, j)
           /\ \A i, j \in DOMAIN missions :
                (i < j /\ SameDrone(i, j)) =>
                    Cardinality(BookingsOf(res, missions[i].assigned_drone,
                                           missions[i].project_id, missions[j].project_id))
                        = Want(i, j)
           /\ \A k \in DOMAIN res :
                res[k].conflict_type = "Double Booking" =>
                    /\ res[k].severity = "Critical"
                    /\ \E i, j \in DOMAIN missions :
                          /\ i < j
                          /\ res[k].mission_id = <<missions[i].project_id, missions[j].project_id>>
                          /\ \/ SamePilot(i, j) /\ res[k].entity_id = missions[i].assigned_pilot
                             \/ SameDrone(i, j) /\ res[k].entity_id = missions[i].assigned_drone

\* C6's case: one pilot holds three missions that overlap each other, a pair of
\* them only in one day, and the detection holds three conflicts for the pilot
C6_Witness ==
    /\ ret.op = "detect_all_conflicts"
    /\ \A i, j \in DOMAIN missions : i < j => SamePilot(i, j) /\ RangesIntersect(missions[i], missions[j])
    /\ missions[1].end_date = missions[2].start_date
    /\ Len(missions) = 3
    /\ Cardinality({k \in DOMAIN ret.value.result :
                       /\ ret.value.result[k].conflict_type = "Double Booking"
                       /\ ret.value.result[k].entity_id = missions[1].assigned_pilot}) = 3

\* C7: overlaps_with(A, B) is true exactly when the four dates are set and
\* A.start <= B.end and B.start <= A.end (for ranges in order: when they share a
\* day), false when a date is missing, and the same for (B, A).
C7_OverlapsWith ==
    ret.op = "overlaps_with" =>
        LET a == missions[ret.value.self]
            b == missions[ret.value.other]
            all_set == /\ a.start_date # NoDate /\ a.end_date # NoDate
                       /\ b.start_date # NoDate /\ b.end_date # NoDate
        IN /\ ret.value.result
                <=> (all_set /\ a.start_date <= b.end_date /\ b.start_date <= a.end_date)
           /\ ~all_set => ~ret.value.result
           /\ (all_set /\ a.start_date <= a.end_date /\ b.start_date <= b.end_date)
                => (ret.value.result
                      <=> (a.start_date..a.end_date) \cap (b.start_date..b.end_date) # {})
           /\ ret.value.result <=> overlaps_with(b, a)

\* C7's case: two missions with all dates set, the one ending on the day the
\* other starts, are found to overlap
C7_Witness ==
    /\ ret.op = "overlaps_with"
    /\ ret.value.self # ret.value.other
    /\ missions[ret.value.self].start_date # NoDate
    /\ missions[ret.value.self].start_date < missions[ret.value.self].end_date
    /\ missions[ret.value.self].end_date = missions[ret.value.other].start_date
    /\ missions[ret.value.other].start_date < missions[ret.value.other].end_date
    /\ ret.value.result

\* the part of the scan a conflict comes from
PartOf(c) ==
    CASE c.conflict_type = "Double Booking" /\ c.description = "pilot overlap" -> 1
      [] c.conflict_type = "Double Booking" /\ c.description = "drone overlap" -> 2
      [] c.conflict_type = "Skill Mismatch" -> 3
      [] c.conflict_type = "Maintenance" -> 4
      [] c.conflict_type = "Location Mismatch" -> 5
      [] OTHER -> 0

C9_QueriesReadOnly ==
    [][(sent' # sent /\ ret'.op \in {"assign", "conflicts", "urgent_reassign"})
          => (pilots' = pilots /\ drones' = drones /\ missions' = missions)]_vars

\* C9's case: an urgent-reassignment request has planned to move a pilot off a
\* mission, and the pilot is still on it
C9_Witness ==
    /\ ret.op = "urgent_reassign"
    /\ ret.outcome = "ok"
    /\ \E i \in DOMAIN plans, k \in DOMAIN missions :
          /\ plans[i].displaced_from_mission = missions[k].project_id
          /\ missions[k].assigned_pilot = plans[i].suggested_pilot

\* res is the first top_n of the Available entities of list, by descending score,
\* those of equal score in the order of list
Ranked(res, list, ids, scores, top_n) ==
    LET avail == {i \in DOMAIN list : list[i].status = "Available"}
        Before(i, j) == scores[i] > scores[j] \/ (scores[i] = scores[j] /\ i < j)
        Rank(i) == Cardinality({j \in avail : Before(j, i)}) + 1
    IN /\ Len(res) = Min(top_n, Cardinality(avail))
       /\ \A i \in avail :
             Rank(i) <= top_n => res[Rank(i)] = [id |-> ids[i], score |-> scores[i]]
       /\ \A k \in DOMAIN res : \E i \in avail : res[k].id = ids[i]

\* C10: find_best_pilots (find_best_drones) returns the first top_n of the
\* Available pilots (drones) in descending order of raw score, equal scores in
\* the order of the list; no pilot (drone) of another status is in it, and with
\* none Available it is the empty list.
C10_BestAreTopAvailable ==
    /\ ret.op = "find_best_pilots" =>
          /\ Ranked(ret.value.result, pilots,
                    [i \in DOMAIN pilots |-> pilots[i].pilot_id],
                    [i \in DOMAIN pilots |->
                        score_pilot_for_mission(pilots[i], missions[ret.value.mission])],
                    ret.value.top_n)
          /\ (\A i \in DOMAIN pilots : pilots[i].status # "Available")
                => ret.value.result = <<>>
    /\ ret.op = "find_best_drones" =>
          /\ Ranked(ret.value.result, drones,
                    [i \in DOMAIN drones |-> drones[i].drone_id],
                    [i \in DOMAIN drones |->
                        score_drone_for_mission(drones[i], missions[ret.value.mission])],
                    ret.value.top_n)
          /\ (\A i \in DOMAIN drones : drones[i].status # "Available")
                => ret.value.result = <<>>

\* C10's case: the first listed pilot is not Available, the two behind it are and
\* score the same, and both are asked for
C10_Witness ==
    /\ ret.op = "find_best_pilots"
    /\ Len(pilots) = 3
    /\ pilots[1].status # "Available"
    /\ Len(ret.value.result) = 2
    /\ ret.value.result[1].score = ret.value.result[2].score
    /\ ret.value.result[1].id = pilots[2].pilot_id
    /\ ret.value.result[2].id = pilots[3].pilot_id

\* C11: _compute_risk_score returns a whole number from 0 to 100 for every input,
\* displaced_priority "Urgent" included, and every plan suggest_reassignment
\* returns has a risk_score from 0 to 100, the no-drone addition included.
C11_RiskWithinBounds ==
    /\ ret.op = "_compute_risk_score" => ret.value.result \in 0..100
    /\ ret.op = "suggest_reassignment" =>
          \A i \in DOMAIN plans : plans[i].risk_score \in 0..100

\* C11's case: a swap off an Urgent mission with scores of -1.0, whose sum of
\* base and additions lies above 100
C11_Witness ==
    /\ ret.op = "_compute_risk_score"
    /\ plans[1].displaced_from_mission # ""
    /\ plans[1].displaced_mission_priority = "Urgent"
    /\ plans[1].pilot_score < 0
    /\ plans[1].drone_score < 0
    /\ ret.value.result = 100

\* the mission the plans were asked for, and what the lists hold for it
Target == missions[ret.value.mission]

NoneAvailable == \A i \in DOMAIN pilots : pilots[i].status # "Available"

AvailableDrones == {i \in DOMAIN drones : drones[i].status = "Available"}

\* the score of the best Available drone, 0 without one
BestDroneScore ==
    IF AvailableDrones = {} THEN 0
    ELSE LET best == CHOOSE i \in AvailableDrones :
                         \A j \in AvailableDrones :
                             score_drone_for_mission(drones[i], Target)
                                 >= score_drone_for_mission(drones[j], Target)
         IN score_drone_for_mission(drones[best], Target)

\* the score against the target of the pilot mission k holds, -1 if the pilots'
\* list has no such pilot
HolderScore(k) ==
    IF \E i \in DOMAIN pilots : pilots[i].pilot_id = missions[k].assigned_pilot
    THEN LET i == CHOOSE i \in DOMAIN pilots : pilots[i].pilot_id = missions[k].assigned_pilot
         IN score_pilot_for_mission(pilots[i], Target)
    ELSE -1

\* a Low mission staffed by a pilot who scores 0.30 or more against the target
StaffedLow(k) ==
    /\ missions[k].priority = "Low"
    /\ missions[k].assigned_pilot # ""
    /\ HolderScore(k) >= Fine * 30 * Unit

\* a plan that takes the pilot of mission k, at the given risk, and warns that
\* the mission is left without a pilot
PlanDisplacing(k, risk) ==
    \E i \in DOMAIN plans :
        /\ plans[i].displaced_from_mission = missions[k].project_id
        /\ plans[i].displaced_mission_priority = "Low"
        /\ plans[i].suggested_pilot = missions[k].assigned_pilot
        /\ plans[i].risk_score = risk
        /\ \E w \in DOMAIN plans[i].warnings :
              plans[i].warnings[w] = UnstaffedWarning(missions[k].project_id)

\* C12: with no pilot Available and a Low mission staffed by a pilot scoring at
\* least 0.30 against the target, suggest_reassignment returns a plan displacing
\* from that mission, priority Low, with the warning that it is left without a
\* pilot, at the risk _compute_risk_score(pilot score, drone score, swap, "Low")
\* when a drone is Available, and at that risk plus 15 (at most 100) when none is.
C12_SwapFromLowMission ==
    (ret.op = "suggest_reassignment" /\ NoneAvailable) =>
        \A k \in DOMAIN missions :
            StaffedLow(k) =>
                PlanDisplacing(k,
                    LET risk == _compute_risk_score(HolderScore(k), BestDroneScore, TRUE, "Low")
                    IN IF AvailableDrones = {} THEN Min(100, risk + 15) ELSE risk)

\* C12's case: no pilot and no drone is Available, and two Low missions are
\* staffed by pilots scoring 0.30 or more
C12_Witness ==
    /\ ret.op = "suggest_reassignment"
    /\ NoneAvailable
    /\ AvailableDrones = {}
    /\ \E k, l \in DOMAIN missions : k # l /\ StaffedLow(k) /\ StaffedLow(l)

\* C12 as stated: the plan's risk is _compute_risk_score(pilot score, drone
\* score, swap, "Low"), whether or not a drone is Available.
C12_RiskIsComputeRisk ==
    (ret.op = "suggest_reassignment" /\ NoneAvailable) =>
        \A k \in DOMAIN missions :
            StaffedLow(k) =>
                PlanDisplacing(k, _compute_risk_score(HolderScore(k), BestDroneScore,
                                                      TRUE, "Low"))

\* C13: every executed mutation (confirm-assign, unassign, cancel mission, pilot
\* or drone status change, executed reassignment) appends exactly one line to
\* the decision log before the operation returns: no change of a pilot, drone
\* or mission goes without its line.
C13_MutationsLogged ==
    [][(/\ sent' # sent
        /\ ret'.op # "reload"
        /\ <<pilots, drones, missions>>' # <<pilots, drones, missions>>)
          => ret'.logged = 1]_vars

\* C14: whenever process_message is idle, the persisted rows are the rows
\* save_all writes for the lists in memory: every operation that changed a field
\* has saved before it returned.
C14_PersistedEqualsMemory ==
    saved = save_all(pilots, drones, missions)

\* a plan that takes its pilot from another mission
Displaces(plan) == plan.displaced_from_mission # ""

\* the place in the missions' list of the mission a plan displaces from
DisplacedIndex(plan) ==
    CHOOSE k \in DOMAIN missions : missions[k].project_id = plan.displaced_from_mission

\* of two plans that displace, a is from the candidate the planner takes first:
\* a Low mission before a Standard one, else the one earlier in the missions' list
TakenBefore(a, b) ==
    \/ /\ a.displaced_mission_priority = "Low"
       /\ b.displaced_mission_priority = "Standard"
    \/ /\ a.displaced_mission_priority = b.displaced_mission_priority
       /\ DisplacedIndex(a) < DisplacedIndex(b)

\* C15: suggest_reassignment returns a plan that displaces a pilot only when no
\* pilot is Available for the target; with one pilot Available or more no plan
\* displaces, whether or not a drone is Available.
C15_DisplacesOnlyWithoutPilots ==
    (ret.op = "suggest_reassignment" /\ ~NoneAvailable) =>
        \A i \in DOMAIN plans : ~Displaces(plans[i])

\* C15's case: a pilot is Available, no drone is, and a Low mission is staffed by
\* a pilot who would qualify for a swap; no plan comes back
C15_Witness ==
    /\ ret.op = "suggest_reassignment"
    /\ ~NoneAvailable
    /\ AvailableDrones = {}
    /\ \E k \in DOMAIN missions :
          /\ StaffedLow(k)
          /\ \E i \in DOMAIN pilots : /\ pilots[i].pilot_id = missions[k].assigned_pilot
                                      /\ pilots[i].status = "Assigned"
    /\ plans = <<>>

\* C16: every plan that displaces does so from a mission of priority Standard or
\* Low that has an assigned pilot, the pilot the plan suggests; and the
\* candidates are taken Low before Standard, those of one priority in the order
\* of the missions' list, which is the order plans of equal risk come back in.
C16_DisplacedAreLowOrStandard ==
    ret.op = "suggest_reassignment" =>
        /\ \A i \in DOMAIN plans :
              Displaces(plans[i]) =>
                  /\ plans[i].displaced_mission_priority \in {"Standard", "Low"}
                  /\ \E k \in DOMAIN missions :
                        /\ missions[k].project_id = plans[i].displaced_from_mission
                        /\ missions[k].priority = plans[i].displaced_mission_priority
                        /\ missions[k].assigned_pilot # ""
                        /\ missions[k].assigned_pilot = plans[i].suggested_pilot
        /\ \A i, j \in DOMAIN plans :
              (/\ i < j
               /\ Displaces(plans[i])
               /\ Displaces(plans[j])
               /\ plans[i].risk_score = plans[j].risk_score) =>
                  TakenBefore(plans[i], plans[j])

\* C16's case: no pilot is Available, a Standard mission stands in the list in
\* front of a Low one, an Urgent or High mission is staffed too, and the plans
\* for the Low and the Standard mission come back at the same risk
C16_Witness ==
    /\ ret.op = "suggest_reassignment"
    /\ NoneAvailable
    /\ \E k \in DOMAIN missions :
          missions[k].priority \in {"Urgent", "High"} /\ missions[k].assigned_pilot # ""
    /\ \E i, j \in DOMAIN plans :
          /\ i < j
          /\ plans[i].displaced_mission_priority = "Low"
          /\ plans[j].displaced_mission_priority = "Standard"
          /\ plans[i].risk_score = plans[j].risk_score
          /\ DisplacedIndex(plans[j]) < DisplacedIndex(plans[i])

\* a mission a pilot can be taken from, held by a pilot of the list
Staffed(k) ==
    /\ missions[k].priority \in {"Low", "Standard"}
    /\ missions[k].assigned_pilot # ""
    /\ HolderScore(k) >= 0

\* C17: every plan that displaces has a pilot score of 0.30 or more; a candidate
\* below 0.30 is in no plan, and a candidate at exactly 0.30 is not skipped.
C17_SwapScoreAtLeastFloor ==
    ret.op = "suggest_reassignment" =>
        /\ \A i \in DOMAIN plans :
              Displaces(plans[i]) => plans[i].pilot_score >= Fine * 30 * Unit
        /\ \A k \in DOMAIN missions :
              (Staffed(k) /\ HolderScore(k) < Fine * 30 * Unit) =>
                  \A i \in DOMAIN plans :
                      plans[i].displaced_from_mission # missions[k].project_id
        /\ \A k \in DOMAIN missions :
              (NoneAvailable /\ Staffed(k) /\ HolderScore(k) = Fine * 30 * Unit) =>
                  \E i \in DOMAIN plans :
                      /\ plans[i].displaced_from_mission = missions[k].project_id
                      /\ plans[i].pilot_score = Fine * 30 * Unit

\* C17's case: no pilot is Available, one staffed mission's pilot scores exactly
\* 0.30 against the target and another's scores less
C17_Witness ==
    /\ ret.op = "suggest_reassignment"
    /\ NoneAvailable
    /\ \E k, l \in DOMAIN missions :
          /\ Staffed(k) /\ HolderScore(k) = Fine * 30 * Unit
          /\ Staffed(l) /\ HolderScore(l) < Fine * 30 * Unit
    /\ \E i \in DOMAIN plans : plans[i].pilot_score = Fine * 30 * Unit

\* how often the no-drone warning stands among a plan's warnings
NoDroneWarnings(plan) ==
    Cardinality({w \in DOMAIN plan.warnings : plan.warnings[w] = NoDroneWarning})

\* C18: when no drone is Available every returned plan suggests no drone,
\* carries the no-drone warning exactly once and has the risk min(100, r + 15),
\* r being _compute_risk_score at a drone score of 0; when a drone is Available
\* no plan carries the warning or the 15.
C18_NoDroneAdjustment ==
    ret.op = "suggest_reassignment" =>
        \A i \in DOMAIN plans :
            IF AvailableDrones = {}
            THEN /\ plans[i].suggested_drone = ""
                 /\ NoDroneWarnings(plans[i]) = 1
                 /\ plans[i].risk_score =
                       Min(100, _compute_risk_score(plans[i].pilot_score, 0,
                                                    Displaces(plans[i]),
                                                    plans[i].displaced_mission_priority) + 15)
            ELSE /\ plans[i].suggested_drone # ""
                 /\ NoDroneWarnings(plans[i]) = 0
                 /\ plans[i].risk_score =
                       _compute_risk_score(plans[i].pilot_score, BestDroneScore,
                                           Displaces(plans[i]),
                                           plans[i].displaced_mission_priority)

\* C18's case: the fleet has a drone but none Available, and two plans come back
C18_Witness ==
    /\ ret.op = "suggest_reassignment"
    /\ drones # <<>>
    /\ AvailableDrones = {}
    /\ Len(plans) >= 2
    /\ \A i \in DOMAIN plans : NoDroneWarnings(plans[i]) = 1

\* the place in the pilots' list of the pilot a plan suggests
SuggestedIndex(plan) ==
    CHOOSE i \in DOMAIN pilots : pilots[i].pilot_id = plan.suggested_pilot

\* of two plans, a was discovered first: among plans for Available pilots the
\* higher score, then the earlier pilot; among plans that displace, the
\* candidate mission taken first
DiscoveredBefore(a, b) ==
    IF Displaces(a) /\ Displaces(b) THEN TakenBefore(a, b)
    ELSE /\ ~Displaces(a)
         /\ ~Displaces(b)
         /\ \/ a.pilot_score > b.pilot_score
            \/ /\ a.pilot_score = b.pilot_score
               /\ SuggestedIndex(a) < SuggestedIndex(b)

\* C19: the list suggest_reassignment returns is in ascending order of final
\* risk score, and plans of equal risk stand in the order they were discovered.
C19_SortedByRiskStable ==
    ret.op = "suggest_reassignment" =>
        \A i, j \in DOMAIN plans :
            i < j => /\ plans[i].risk_score <= plans[j].risk_score
                     /\ plans[i].risk_score = plans[j].risk_score
                            => DiscoveredBefore(plans[i], plans[j])

\* C19's case: three plans, the safest of them from a candidate discovered after
\* the second, the other two at equal risk
C19_Witness ==
    /\ ret.op = "suggest_reassignment"
    /\ Len(plans) = 3
    /\ plans[1].risk_score < plans[2].risk_score
    /\ plans[2].risk_score = plans[3].risk_score
    /\ Displaces(plans[1])
    /\ Displaces(plans[2])
    /\ TakenBefore(plans[2], plans[1])

\* x / (4 * Unit) rounded to the nearest integer, a half going up / going down
HalfUp(x) == (2 * x + 4 * Unit) \div (8 * Unit)
HalfDown(x) == 0 - ((4 * Unit - 2 * x) \div (8 * Unit))

\* the addition for a swap
SwapRisk(is_swap, displaced_priority) ==
    IF ~is_swap THEN 0
    ELSE 20 + (CASE displaced_priority = "High" -> 20
                 [] displaced_priority = "Urgent" -> 30
                 [] displaced_priority \in {"Standard", "Low"} -> 5
                 [] OTHER -> 0)

\* C20: _compute_risk_score returns clamp(round((1 - (p + d) / 2) * 50) + s, 0, 100),
\* s being the addition for a swap: the base is rounded to the nearest integer
\* (a half may go either way).
C20_RiskRoundsToNearest ==
    ret.op = "_compute_risk_score" =>
        LET x == 200 * Unit - Exact(plans[1].pilot_score) - Exact(plans[1].drone_score)
            s == SwapRisk(plans[1].displaced_from_mission # "",
                          plans[1].displaced_mission_priority)
        IN ret.value.result \in {Max(0, Min(100, HalfUp(x) + s)),
                                 Max(0, Min(100, HalfDown(x) + s))}

AvailablePilots == {i \in DOMAIN pilots : pilots[i].status = "Available"}

\* the Available pilot (drone) of the given rank for the target: by descending
\* score, those of equal score in the order of the list
PilotOfRank(n) ==
    LET Score(i) == score_pilot_for_mission(pilots[i], Target)
        Before(i, j) == Score(i) > Score(j) \/ (Score(i) = Score(j) /\ i < j)
    IN CHOOSE i \in AvailablePilots :
           Cardinality({j \in AvailablePilots : Before(j, i)}) = n - 1

TopDrone ==
    LET Score(i) == score_drone_for_mission(drones[i], Target)
        Before(i, j) == Score(i) > Score(j) \/ (Score(i) = Score(j) /\ i < j)
    IN CHOOSE i \in AvailableDrones : \A j \in AvailableDrones : j = i \/ Before(i, j)

\* C21: with a pilot and a drone Available, suggest_reassignment returns
\* min(2, number of Available pilots) plans; plan i pairs the Available pilot of
\* rank i with the top Available drone, displaces nothing, and has the risk
\* _compute_risk_score(pilot score, drone score, no swap).
C21_PairsTopPilotsWithTopDrone ==
    (ret.op = "suggest_reassignment" /\ AvailablePilots # {} /\ AvailableDrones # {}) =>
        /\ Len(plans) = Min(2, Cardinality(AvailablePilots))
        /\ \A i \in DOMAIN plans :
              LET p == pilots[PilotOfRank(i)]
                  d == drones[TopDrone]
              IN /\ plans[i].suggested_pilot = p.pilot_id
                 /\ plans[i].pilot_score = score_pilot_for_mission(p, Target)
                 /\ plans[i].suggested_drone = d.drone_id
                 /\ plans[i].drone_score = score_drone_for_mission(d, Target)
                 /\ plans[i].displaced_from_mission = ""
                 /\ plans[i].risk_score =
                       _compute_risk_score(plans[i].pilot_score, plans[i].drone_score,
                                           FALSE, "")

\* C21's case: three pilots and two drones are Available, the best pilot is not
\* the first of the list and the best drone is the second
C21_Witness ==
    /\ ret.op = "suggest_reassignment"
    /\ Cardinality(AvailablePilots) = 3
    /\ Cardinality(AvailableDrones) = 2
    /\ Len(plans) = 2
    /\ plans[1].suggested_pilot # pilots[1].pilot_id
    /\ plans[1].pilot_score > plans[2].pilot_score
    /\ plans[1].suggested_drone = drones[2].drone_id
    /\ score_drone_for_mission(drones[2], Target) > score_drone_for_mission(drones[1], Target)

\* a step of execute_reassignment that ends well
Executed == sent' # sent /\ ret'.op = "execute_reassignment" /\ ret'.outcome = "ok"

\* C22: after a successful execute_reassignment of a plan with a suggested pilot
\* P and a target mission T, P is Assigned, P's current_assignment is T's id and
\* T names P as its pilot; the same for a suggested drone; a plan with neither
\* reports no change and changes no field of any pilot, drone or mission.
C22_ExecutionAssigns ==
    [][Executed =>
          LET plan == plans[1] IN
          /\ plan.suggested_pilot # "" =>
                /\ \E i \in DOMAIN pilots' :
                      /\ pilots'[i].pilot_id = plan.suggested_pilot
                      /\ pilots'[i].status = "Assigned"
                      /\ pilots'[i].current_assignment = plan.urgent_mission_id
                /\ \E k \in DOMAIN missions' :
                      /\ missions'[k].project_id = plan.urgent_mission_id
                      /\ missions'[k].assigned_pilot = plan.suggested_pilot
          /\ plan.suggested_drone # "" =>
                /\ \E i \in DOMAIN drones' :
                      /\ drones'[i].drone_id = plan.suggested_drone
                      /\ drones'[i].status = "Assigned"
                      /\ drones'[i].current_assignment = plan.urgent_mission_id
                /\ \E k \in DOMAIN missions' :
                      /\ missions'[k].project_id = plan.urgent_mission_id
                      /\ missions'[k].assigned_drone = plan.suggested_drone
          /\ (plan.suggested_pilot = "" /\ plan.suggested_drone = "") =>
                /\ ret'.value = <<>>
                /\ pilots' = pilots /\ drones' = drones /\ missions' = missions]_vars

\* C22's case: a plan with a pilot and a drone was executed for a mission that
\* held neither of them
C22_Witness ==
    /\ ret.op = "execute_reassignment"
    /\ ret.outcome = "ok"
    /\ sent = 1
    /\ Len(ret.value) >= 2
    /\ \E i \in DOMAIN pilots, j \in DOMAIN drones, k \in DOMAIN missions :
          /\ pilots[i].pilot_id = plans[1].suggested_pilot
          /\ drones[j].drone_id = plans[1].suggested_drone
          /\ missions[k].project_id = plans[1].urgent_mission_id
          /\ saved.missions[k].assigned_pilot # PilotToDict(pilots[i]).pilot_id
          /\ missions[k].assigned_pilot = pilots[i].pilot_id
          /\ missions[k].assigned_drone = drones[j].drone_id

C29_SecondExecutionChangesNothing ==
    [][(Executed /\ ret.op = "execute_reassignment" /\ ret.outcome = "ok") =>
          (pilots' = pilots /\ drones' = drones /\ missions' = missions)]_vars

\* C29's case: a plan that takes a pilot from a staffed mission and brings a
\* drone has been executed twice
C29_Witness ==
    /\ ret.op = "execute_reassignment"
    /\ ret.outcome = "ok"
    /\ sent = 2
    /\ plans[1].suggested_pilot # ""
    /\ plans[1].suggested_drone # ""
    /\ \E k \in DOMAIN missions :
          /\ missions[k].project_id = plans[1].displaced_from_mission
          /\ missions[k].project_id # plans[1].urgent_mission_id
          /\ saved.missions[k].assigned_pilot = plans[1].suggested_pilot
          /\ missions[k].assigned_pilot = ""

\* the conflicts of one type a scan lists for mission k and entity eid
Found(type, k, eid) ==
    {c \in DOMAIN ret.value.result :
        /\ ret.value.result[c].conflict_type = type
        /\ ret.value.result[c].mission_id = <<missions[k].project_id>>
        /\ ret.value.result[c].entity_id = eid}

Severities(found) == {ret.value.result[c].severity : c \in found}

\* the places differ once trimmed and put in lower case
PlacesDiffer(a, b) == LowerStrip(a) # LowerStrip(b)

\* C24: for every mission with a location, detect_location_mismatches lists one
\* Warning for the assigned pilot whenever the pilot's location is not the
\* mission's (trimmed, whatever the case), and on its own one for the assigned
\* drone whenever the drone's is not; a mission without a location has no
\* location conflict.
C24_OneMismatchPerEntity ==
    ret.op = "detect_location_mismatches" =>
        \A k \in DOMAIN missions :
            /\ missions[k].location = "" =>
                  \A c \in DOMAIN ret.value.result :
                      ret.value.result[c].mission_id # <<missions[k].project_id>>
            /\ missions[k].location # "" =>
                  /\ \A i \in DOMAIN pilots :
                        pilots[i].pilot_id = missions[k].assigned_pilot =>
                            LET found == Found("Location Mismatch", k, pilots[i].pilot_id) IN
                            IF PlacesDiffer(pilots[i].location, missions[k].location)
                            THEN Cardinality(found) = 1 /\ Severities(found) = {"Warning"}
                            ELSE found = {}
                  /\ \A i \in DOMAIN drones :
                        drones[i].drone_id = missions[k].assigned_drone =>
                            LET found == Found("Location Mismatch", k, drones[i].drone_id) IN
                            IF PlacesDiffer(drones[i].location, missions[k].location)
                            THEN Cardinality(found) = 1 /\ Severities(found) = {"Warning"}
                            ELSE found = {}

\* C25: for every mission whose assigned drone is in the list,
\* detect_maintenance_conflicts lists at most one Maintenance conflict: a
\* Critical one if the drone's status is Maintenance, whatever the dates;
\* otherwise a Warning exactly when maintenance_due and the mission's end date
\* are set and maintenance_due <= end date; otherwise none.
C25_FirstMaintenanceRuleOnly ==
    ret.op = "detect_maintenance_conflicts" =>
        \A k \in DOMAIN missions, i \in DOMAIN drones :
            drones[i].drone_id = missions[k].assigned_drone =>
                LET found == Found("Maintenance", k, drones[i].drone_id) IN
                IF drones[i].status = "Maintenance"
                THEN Cardinality(found) = 1 /\ Severities(found) = {"Critical"}
                ELSE IF /\ drones[i].maintenance_due # NoDate
                        /\ missions[k].end_date # NoDate
                        /\ drones[i].maintenance_due <= missions[k].end_date
                THEN Cardinality(found) = 1 /\ Severities(found) = {"Warning"}
                ELSE found = {}

\* C25's case: the drone is in Maintenance and due before the end of the mission
\* that holds it, and another mission without an end date holds it too
C25_Witness ==
    /\ ret.op = "detect_maintenance_conflicts"
    /\ drones[1].status = "Maintenance"
    /\ drones[1].maintenance_due # NoDate
    /\ \E k, l \in DOMAIN missions :
          /\ missions[k].assigned_drone = drones[1].drone_id
          /\ missions[k].end_date # NoDate
          /\ drones[1].maintenance_due <= missions[k].end_date
          /\ missions[l].assigned_drone = drones[1].drone_id
          /\ missions[l].end_date = NoDate
    /\ Len(ret.value.result) = 2

\* C26: after any sequence of mutators from a consistent snapshot, every pilot
\* (drone) that is Assigned with current_assignment M is named by mission M as
\* its assigned_pilot (assigned_drone): an occupant that confirm-assign or
\* execute_reassignment replaces is not left Assigned to the mission.
C26_EntitySideConsistent ==
    /\ \A i \in DOMAIN pilots :
          (pilots[i].status = "Assigned" /\ pilots[i].current_assignment # "") =>
              \E k \in DOMAIN missions :
                  /\ missions[k].project_id = pilots[i].current_assignment
                  /\ missions[k].assigned_pilot = pilots[i].pilot_id
    /\ \A i \in DOMAIN drones :
          (drones[i].status = "Assigned" /\ drones[i].current_assignment # "") =>
              \E k \in DOMAIN missions :
                  /\ missions[k].project_id = drones[i].current_assignment
                  /\ missions[k].assigned_drone = drones[i].drone_id

\* no pilot and no drone is named by two missions
NamedOnce(ms) ==
    \A k, l \in DOMAIN ms :
        k # l => /\ ms[k].assigned_pilot # "" => ms[k].assigned_pilot # ms[l].assigned_pilot
                 /\ ms[k].assigned_drone # "" => ms[k].assigned_drone # ms[l].assigned_drone

\* C27: a plan stored by an urgent-reassignment request is safe to confirm
\* later, whatever mutators ran in between: its execution does not leave two
\* missions naming the same pilot or the same drone, and does not assign a pilot
\* who is On Leave or Inactive when it runs.  Stated for stored plans that
\* displace nobody: their pilots were Available when the plans were made, so a
\* pilot of theirs who is On Leave, Inactive or held by a mission at execution
\* time was changed in between.
C27_StoredPlanStaysSafe ==
    [][(/\ sent' # sent
        /\ ret'.op = "confirm_reassignment"
        /\ ret'.outcome = "ok"
        /\ \A j \in DOMAIN plans : plans[j].displaced_from_mission = "") =>
          /\ (C1_MissionSideConsistent /\ NamedOnce(missions)) => NamedOnce(missions')
          /\ \A i \in DOMAIN pilots :
                pilots[i].status \in {"On Leave", "Inactive"}
                    => pilots'[i].status # "Assigned"]_vars

\* C28: in every plan suggest_reassignment returns, displaced_from_mission is
\* unset or the id of another mission than the target, also for a Standard or
\* Low target that holds a pilot.
C28_TargetNotDisplaced ==
    ret.op = "suggest_reassignment" =>
        \A i \in DOMAIN plans : plans[i].displaced_from_mission # Target.project_id

\* C30: with a pilot Available and no drone Available suggest_reassignment
\* returns the empty list: phase 1 needs a pilot and a drone, and phase 2 is not
\* entered while a pilot is Available.
C30_NoPlanWithoutDrone ==
    (ret.op = "suggest_reassignment" /\ AvailablePilots # {} /\ AvailableDrones = {}) =>
        plans = <<>>

\* C30's case: every pilot is Available, the one drone of the fleet is in
\* Maintenance, the target holds no pilot, and nothing is suggested
C30_Witness ==
    /\ ret.op = "suggest_reassignment"
    /\ AvailablePilots = DOMAIN pilots
    /\ pilots # <<>>
    /\ Len(drones) = 1
    /\ drones[1].status = "Maintenance"
    /\ Target.assigned_pilot = ""
    /\ Target.priority = "Urgent"
    /\ plans = <<>>

====
